---- MODULE Spec2Model ----
(***************************************************************************)
(* The IOPub bridge of runtimed (python/runtimed/src/runtimed/             *)
(* _ipython_bridge.py): the host thread (publisher operations, the hooks   *)
(* install_bridge wires into the host, close), the Shell responder thread  *)
(* and the Heartbeat responder thread, as one state machine.               *)
(*                                                                         *)
(* A send on the IOPub socket takes two steps (the call of send_multipart  *)
(* and its return), so that two threads inside a send are a state.  The    *)
(* increment of _execution_count takes two steps (load, store).  Every     *)
(* other statement sequence that touches no shared state between two       *)
(* shared accesses is one step.                                            *)
(*                                                                         *)
(* Timing: Thread.join(timeout=2) is modelled as returning when the thread *)
(* has ended, or, by timeout, while the thread is evaluating a user        *)
(* expression (eval runs host code of any duration); every other step of a *)
(* responder takes far less than the poll period of one second.            *)
(***************************************************************************)
EXTENDS Integers, Sequences, FiniteSets, TLC

\* ------------------------------------------------------------------ bounds
MaxEvents == 2   \* operations the host thread starts plus messages that arrive on Shell
MaxHb     == 2   \* frames that arrive on Heartbeat
MaxDepth  == 2   \* displayhook invocations in progress at once
MaxInstalls == 2 \* calls of install_bridge on one host

\* --------------------------------------------------------------- constants
WIDGET_VIEW_MIMETYPE    == "application/vnd.jupyter.widget-view+json"
WIDGET_PLACEHOLDER_HTML == "<div>Widgets are not supported</div>"
WIDGET_FALLBACK_TEXT    == "(widget not available in bridged mode)"
DELIM                   == "<IDS|MSG>"

\* A Python dict with string keys is a function; {} is the empty function.
EmptyDict == [k \in {} |-> ""]

\* A value json.dumps cannot encode (bytes, an arbitrary object).
UNSERIALISABLE == "<object>"

\* json.dumps(d) raises TypeError unless every value can be encoded.
Serialisable(d) == \A k \in DOMAIN d : d[k] # UNSERIALISABLE

\* ------------------------------------------------------------ IOPub messages
\* What _send hands to socket.send_multipart, as the fields the claims read:
\*   type/state/name/text/data/count/parent  from header and content
\*   by      the thread that sent it
\*   cell    the cell-finished event the observer sent it for (0: none)
\*   inhook  a stream whose write happened inside a displayhook invocation
\*   raced   the send overlapped another thread's send on the same socket
\*           (ZeroMQ sockets are not thread safe: the frames on the wire are
\*           then undefined)
NoMsg ==
  [type |-> "none", state |-> "", by |-> "", cell |-> 0, data |-> EmptyDict,
   count |-> 0, parent |-> EmptyDict, name |-> "", text |-> "",
   inhook |-> FALSE, raced |-> FALSE]

publish_status(by, execution_state, parent, cell) ==
  [NoMsg EXCEPT !.type = "status", !.state = execution_state, !.by = by,
                !.parent = parent, !.cell = cell]

publish_stream(by, name, text, inhook) ==
  [NoMsg EXCEPT !.type = "stream", !.name = name, !.text = text, !.by = by,
                !.inhook = inhook]

publish_error(cell) ==
  [NoMsg EXCEPT !.type = "error", !.by = "host", !.cell = cell]

publish_execute_result(data, count, cell) ==
  [NoMsg EXCEPT !.type = "execute_result", !.data = data, !.count = count,
                !.by = "host", !.cell = cell]

publish_display_data(data) ==
  [NoMsg EXCEPT !.type = "display_data", !.data = data, !.by = "host"]

\* ------------------------------------------------------------ widget rewrite
rewrite_widget_data(data) ==
  IF WIDGET_VIEW_MIMETYPE \notin DOMAIN data THEN data
  ELSE LET keys == (DOMAIN data \ {WIDGET_VIEW_MIMETYPE}) \cup {"text/html"}
           d    == [k \in keys |->
                      IF k = "text/html" THEN WIDGET_PLACEHOLDER_HTML
                      ELSE data[k]]
       IN  IF "text/plain" \in DOMAIN d THEN d
           ELSE [k \in keys \cup {"text/plain"} |->
                   IF k = "text/plain" THEN WIDGET_FALLBACK_TEXT ELSE d[k]]

\* ------------------------------------------------------------------- inputs
\* MIME bundles a formatter or a caller can hand over.
Plain      == "text/plain" :> "v"
WidgetOnly == WIDGET_VIEW_MIMETYPE :> "w"
WidgetText == (WIDGET_VIEW_MIMETYPE :> "w") @@ ("text/plain" :> "v")
Unencodable == "image/png" :> UNSERIALISABLE
Bundles    == {Plain, WidgetOnly, WidgetText, Unencodable}

\* The result object of a cell-finished event, by what the observer reads:
\*   error   error_in_exec: "none", "exc", or "badstr" (str(exc) raises)
\*   result  "none" or "val"
\*   fmt     what display_formatter.format(result) does: "raise", or "ok"
\*           and then returns bundle
\*   repr    what repr(result) does: "ok" or "raise"
ExecResults ==
  {[error |-> "none", result |-> "none", fmt |-> "ok", bundle |-> Plain, repr |-> "ok"],
   [error |-> "exc",  result |-> "none", fmt |-> "ok", bundle |-> Plain, repr |-> "ok"],
   [error |-> "exc",  result |-> "val",  fmt |-> "ok", bundle |-> Plain, repr |-> "ok"],
   [error |-> "badstr", result |-> "none", fmt |-> "ok", bundle |-> Plain, repr |-> "ok"],
   [error |-> "none", result |-> "val", fmt |-> "raise", bundle |-> Plain, repr |-> "ok"],
   [error |-> "none", result |-> "val", fmt |-> "raise", bundle |-> Plain, repr |-> "raise"]}
  \cup {[error |-> "none", result |-> "val", fmt |-> "ok", bundle |-> b, repr |-> "ok"]
          : b \in Bundles}

NoResult == [error |-> "none", result |-> "none", fmt |-> "ok", bundle |-> Plain, repr |-> "ok"]

\* No hook call is being looked at.
NoCall == [op |-> "none"]

\* -------------------------------------------------------------------- state
VARIABLES
  running,          \* IPythonBridge._running
  ctx_alive,        \* the ZeroMQ context and its five sockets are open
  conn_file,        \* the connection file exists on disk
  conn_dir,         \* its temporary directory exists on disk
  execution_count,  \* IPythonBridge._execution_count
  in_displayhook,   \* IPythonBridge._in_displayhook (the DisplayhookGuard)
  installed,        \* install_bridge has wired the hooks into the host
  iopub,            \* messages sent on the IOPub socket, in order
  shell_out,        \* messages sent on the Shell socket, in order
  \* host thread
  hpc,              \* where the host thread is
  hmsg,             \* the IOPub message the host thread is sending, or NoMsg
  hres,             \* post_run_cell's argument
  htmp,             \* the value of _execution_count loaded by += 1
  hcell,            \* number of the cell-finished event being observed
  depth,            \* _displayhook_wrapper invocations in progress
  herr,             \* the exception the last host operation raised, or "none"
  events,           \* host operations started plus Shell messages received
  ncells,           \* cell-finished events delivered so far
  close_state,      \* "open", "closing" (close has started), "closed"
  unlink_failed,    \* the latest unlink raised OSError and left the file in place
  closes,           \* calls of close that have finished
  \* Shell responder thread
  spc,              \* where the Shell responder is
  sids, sparent,    \* _handle_*'s identities and parent arguments
  sitems,           \* the user_expressions items still to evaluate
  sresults,         \* _handle_execute's results dict
  smsg,             \* the IOPub message the responder is sending, or NoMsg
  shell_in,         \* the multipart messages received on Shell, in order
  count_overlap,    \* the responder read _execution_count between the host's load and store
  \* Heartbeat responder thread
  bpc, bmsg, hb_in, hb_out,
  \* fixed at construction
  key,              \* IPythonBridge._key, as written to the connection file
  session_id,       \* IPythonBridge._session_id
  \* one call of a hook, looked at on its own
  hcall,            \* the call's arguments and what it did
  \* the sidecar process of a BridgedSidecar
  terminates        \* calls of Popen.terminate made so far

sharedVars == <<running, ctx_alive, conn_file, conn_dir, execution_count,
                in_displayhook, installed, iopub, shell_out>>
hostVars   == <<hpc, hmsg, hres, htmp, hcell, depth, herr, ncells,
                close_state, unlink_failed, closes>>
shellRest  == <<spc, sids, sparent, sitems, sresults, shell_in, count_overlap>>
shellVars  == <<shellRest, smsg>>
hbVars     == <<bpc, bmsg, hb_in, hb_out>>
vars       == <<events, sharedVars, hostVars, shellVars, hbVars,
                key, session_id, hcall, terminates>>

\* The state when IPythonBridge.__init__ returns: sockets bound, connection
\* file written, both responder threads started.
Init ==
  /\ running = TRUE /\ ctx_alive = TRUE
  /\ conn_file = TRUE /\ conn_dir = TRUE
  /\ execution_count = 0 /\ in_displayhook = FALSE /\ installed = FALSE
  /\ iopub = <<>> /\ shell_out = <<>>
  /\ hpc = "idle" /\ hmsg = NoMsg /\ hres = NoResult /\ htmp = 0 /\ hcell = 0
  /\ depth = 0 /\ herr = "none" /\ events = 0 /\ ncells = 0
  /\ close_state = "open" /\ unlink_failed = FALSE /\ closes = 0
  /\ spc = "top" /\ sids = <<>> /\ sparent = EmptyDict /\ sitems = <<>>
  /\ sresults = EmptyDict /\ smsg = NoMsg /\ shell_in = <<>>
  /\ count_overlap = FALSE
  /\ bpc = "top" /\ bmsg = "" /\ hb_in = <<>> /\ hb_out = <<>>
  /\ key = "uuid4-k" /\ session_id = "uuid4-s"
  /\ hcall = NoCall
  /\ terminates = 0

\* ------------------------------------------------------------- host thread
\* An exception leaves the operation: the host thread is back at its caller.
host_raise(e) == hpc' = "idle" /\ herr' = e /\ hmsg' = NoMsg

\* _send_iopub called by the host thread; cont is where the caller goes on
\* when the send has returned.  json.dumps comes before send_multipart.
host_send_iopub(m, cont) ==
  IF ~Serialisable(m.data) THEN host_raise("TypeError") /\ UNCHANGED smsg
  ELSE IF ~ctx_alive THEN host_raise("ZMQError") /\ UNCHANGED smsg
  ELSE /\ hmsg' = [m EXCEPT !.raced = (smsg # NoMsg)]
       /\ smsg' = IF smsg # NoMsg THEN [smsg EXCEPT !.raced = TRUE] ELSE smsg
       /\ hpc' = cont
       /\ herr' = "none"

\* send_multipart returns to the host thread.
host_send_return ==
  /\ hmsg # NoMsg
  /\ iopub' = Append(iopub, hmsg)
  /\ hmsg' = NoMsg
  /\ UNCHANGED <<running, ctx_alive, conn_file, conn_dir, execution_count,
                 in_displayhook, installed, shell_out>>
  /\ UNCHANGED <<hpc, hres, htmp, hcell, depth, herr, ncells,
                 close_state, unlink_failed, closes>>
  /\ UNCHANGED <<shellVars, hbVars>>
  /\ UNCHANGED events

  /\ UNCHANGED <<key, session_id, hcall, terminates>>
\* The host thread is at its caller and may start an operation.
host_ready == hpc = "idle" /\ hmsg = NoMsg /\ events < MaxEvents

\* install_bridge after IPythonBridge(): wires the hooks and publishes the
\* initial status idle.
install_bridge ==
  /\ host_ready /\ ~installed /\ close_state = "open"
  /\ installed' = TRUE
  /\ host_send_iopub(publish_status("host", "idle", EmptyDict, 0), "idle")
  /\ UNCHANGED <<running, ctx_alive, conn_file, conn_dir, execution_count,
                 in_displayhook, iopub, shell_out>>
  /\ UNCHANGED <<hres, htmp, hcell, depth, ncells, close_state, unlink_failed, closes>>
  /\ UNCHANGED shellRest
  /\ UNCHANGED hbVars
  /\ UNCHANGED events

  /\ UNCHANGED <<key, session_id, hcall, terminates>>
\* post_run_cell(result), first half of `bridge._execution_count += 1`: load.
post_run_cell_load ==
  /\ host_ready /\ installed /\ depth = 0
  /\ \E result \in ExecResults : hres' = result
  /\ htmp' = execution_count
  /\ ncells' = ncells + 1 /\ hcell' = ncells + 1
  /\ events' = events + 1
  /\ hpc' = "cell_store" /\ herr' = "none"
  /\ UNCHANGED <<sharedVars, hmsg, depth, close_state, unlink_failed, closes>>
  /\ UNCHANGED <<shellVars, hbVars>>

  /\ UNCHANGED <<key, session_id, hcall, terminates>>
\* An observer that stores the count it loaded, without adding one.
post_run_cell_busy_no_increment ==
  /\ hpc = "cell_store"
  /\ execution_count' = htmp
  /\ host_send_iopub(publish_status("host", "busy", EmptyDict, hcell), "cell_mid")
  /\ hres' = IF hpc' = "idle" THEN NoResult ELSE hres
  /\ htmp' = IF hpc' = "idle" THEN 0 ELSE htmp
  /\ hcell' = IF hpc' = "idle" THEN 0 ELSE hcell
  /\ UNCHANGED <<running, ctx_alive, conn_file, conn_dir, in_displayhook,
                 installed, iopub, shell_out>>
  /\ UNCHANGED <<depth, ncells, close_state, unlink_failed, closes>>
  /\ UNCHANGED shellRest
  /\ UNCHANGED hbVars
  /\ UNCHANGED events

  /\ UNCHANGED <<key, session_id, hcall, terminates>>
\* ... second half: store; then publish_status("busy").
post_run_cell_busy ==
  /\ hpc = "cell_store"
  /\ execution_count' = htmp + 1
  /\ host_send_iopub(publish_status("host", "busy", EmptyDict, hcell), "cell_mid")
  /\ hres' = IF hpc' = "idle" THEN NoResult ELSE hres
  /\ htmp' = IF hpc' = "idle" THEN 0 ELSE htmp
  /\ hcell' = IF hpc' = "idle" THEN 0 ELSE hcell
  /\ UNCHANGED <<running, ctx_alive, conn_file, conn_dir, in_displayhook,
                 installed, iopub, shell_out>>
  /\ UNCHANGED <<depth, ncells, close_state, unlink_failed, closes>>
  /\ UNCHANGED shellRest
  /\ UNCHANGED hbVars
  /\ UNCHANGED events

  /\ UNCHANGED <<key, session_id, hcall, terminates>>
\* The bundle post_run_cell publishes for result.result: what the host
\* formatter returns, or the text/plain repr when the formatter raises.
format_dict(result) ==
  IF result.fmt = "raise" THEN "text/plain" :> "repr" ELSE result.bundle

\* ... the middle: publish_error, or publish_execute_result, or nothing and
\* then publish_status("idle") at once.
post_run_cell_mid ==
  /\ hpc = "cell_mid" /\ hmsg = NoMsg
  /\ IF hres.error # "none"
     THEN IF hres.error = "badstr"
          THEN host_raise("Exception") /\ UNCHANGED smsg
          ELSE host_send_iopub(publish_error(hcell), "cell_idle")
     ELSE IF hres.result # "none"
     THEN IF hres.fmt = "raise" /\ hres.repr = "raise"
          THEN host_raise("Exception") /\ UNCHANGED smsg
          ELSE host_send_iopub(
                 publish_execute_result(rewrite_widget_data(format_dict(hres)),
                                        execution_count, hcell),
                 "cell_idle")
     ELSE host_send_iopub(publish_status("host", "idle", EmptyDict, hcell), "idle")
  /\ hres' = IF hpc' = "idle" THEN NoResult ELSE hres
  /\ htmp' = IF hpc' = "idle" THEN 0 ELSE htmp
  /\ hcell' = IF hpc' = "idle" THEN 0 ELSE hcell
  /\ UNCHANGED <<sharedVars, depth, ncells,
                 close_state, unlink_failed, closes>>
  /\ UNCHANGED shellRest
  /\ UNCHANGED hbVars
  /\ UNCHANGED events

  /\ UNCHANGED <<key, session_id, hcall, terminates>>
\* ... the end: publish_status("idle").
post_run_cell_idle ==
  /\ hpc = "cell_idle" /\ hmsg = NoMsg
  /\ host_send_iopub(publish_status("host", "idle", EmptyDict, hcell), "idle")
  /\ hres' = IF hpc' = "idle" THEN NoResult ELSE hres
  /\ htmp' = IF hpc' = "idle" THEN 0 ELSE htmp
  /\ hcell' = IF hpc' = "idle" THEN 0 ELSE hcell
  /\ UNCHANGED <<sharedVars, depth, ncells,
                 close_state, unlink_failed, closes>>
  /\ UNCHANGED shellRest
  /\ UNCHANGED hbVars
  /\ UNCHANGED events

  /\ UNCHANGED <<key, session_id, hcall, terminates>>
\* _TeeStream.write(text) on the tee of stdout or stderr, called on the host
\* thread: the original stream gets the text; a stream message is published
\* when the text is not empty and the guard is low.
TeeStream_write_text(name, text) ==
  /\ host_ready /\ installed
  /\ events' = events + 1
  /\ IF text # "" /\ ~in_displayhook
     THEN host_send_iopub(publish_stream("host", name, text, depth > 0), "idle")
     ELSE UNCHANGED <<hpc, hmsg, smsg>> /\ herr' = "none"
  /\ UNCHANGED <<sharedVars, hres, htmp, hcell, depth, ncells, close_state,
                 unlink_failed, closes>>
  /\ UNCHANGED shellRest
  /\ UNCHANGED hbVars
  /\ UNCHANGED <<key, session_id, hcall, terminates>>

\* A write of any text on either tee.
TeeStream_write ==
  \E name \in {"stdout", "stderr"}, text \in {"", "x"} :
    TeeStream_write_text(name, text)

\* _displayhook_wrapper is entered: the guard is raised, and the original
\* displayhook runs (the host operations that follow run inside it).
displayhook_wrapper_enter ==
  /\ hpc = "idle" /\ hmsg = NoMsg /\ installed /\ depth < MaxDepth
  /\ in_displayhook' = TRUE
  /\ depth' = depth + 1
  /\ herr' = "none"
  /\ UNCHANGED <<running, ctx_alive, conn_file, conn_dir, execution_count,
                 installed, iopub, shell_out>>
  /\ UNCHANGED <<hpc, hmsg, hres, htmp, hcell, ncells, close_state, unlink_failed, closes>>
  /\ UNCHANGED <<shellVars, hbVars>>
  /\ UNCHANGED events

  /\ UNCHANGED <<key, session_id, hcall, terminates>>
\* A wrapper that lowers the guard on normal return only.
displayhook_wrapper_exit_no_finally ==
  /\ hpc = "idle" /\ hmsg = NoMsg /\ depth > 0
  /\ depth' = depth - 1
  /\ \E raised \in BOOLEAN :
       /\ herr' = IF raised THEN "Exception" ELSE "none"
       /\ in_displayhook' = IF raised THEN in_displayhook ELSE FALSE
  /\ UNCHANGED <<running, ctx_alive, conn_file, conn_dir, execution_count,
                 installed, iopub, shell_out>>
  /\ UNCHANGED <<hpc, hmsg, hres, htmp, hcell, ncells, close_state,
                 unlink_failed, closes>>
  /\ UNCHANGED <<shellVars, hbVars>>
  /\ UNCHANGED events
  /\ UNCHANGED <<key, session_id, hcall, terminates>>

\* The original displayhook returns or raises: finally lowers the guard.
displayhook_wrapper_exit ==
  /\ hpc = "idle" /\ hmsg = NoMsg /\ depth > 0
  /\ in_displayhook' = FALSE
  /\ depth' = depth - 1
  /\ \E raised \in BOOLEAN : herr' = IF raised THEN "Exception" ELSE "none"
  /\ UNCHANGED <<running, ctx_alive, conn_file, conn_dir, execution_count,
                 installed, iopub, shell_out>>
  /\ UNCHANGED <<hpc, hmsg, hres, htmp, hcell, ncells, close_state,
                 unlink_failed, closes>>
  /\ UNCHANGED <<shellVars, hbVars>>
  /\ UNCHANGED events

  /\ UNCHANGED <<key, session_id, hcall, terminates>>
\* The data argument of a display-publish call: None, or a dict.
DisplayArgs ==
  {[none |-> TRUE, dict |-> EmptyDict], [none |-> FALSE, dict |-> EmptyDict]}
  \cup {[none |-> FALSE, dict |-> b] : b \in {Plain, WidgetText}}

\* patched_publish(data, update=...): the original publish first, then the
\* IOPub message when data is truthy.
patched_publish ==
  /\ host_ready /\ installed
  /\ events' = events + 1
  /\ \E data \in DisplayArgs, update \in BOOLEAN, original_raises \in BOOLEAN :
       IF original_raises THEN host_raise("Exception") /\ UNCHANGED smsg
       ELSE IF ~data.none /\ DOMAIN data.dict # {}
       THEN host_send_iopub(
              [publish_display_data(rewrite_widget_data(data.dict)) EXCEPT
                 !.type = IF update THEN "update_display_data" ELSE "display_data"],
              "idle")
       ELSE UNCHANGED <<hpc, hmsg, smsg>> /\ herr' = "none"
  /\ UNCHANGED <<sharedVars, hres, htmp, hcell, depth, ncells, close_state,
                 unlink_failed, closes>>
  /\ UNCHANGED shellRest
  /\ UNCHANGED hbVars

  /\ UNCHANGED <<key, session_id, hcall, terminates>>
\* IPythonBridge.publish_execute_result(data, metadata, execution_count),
\* called directly.
call_publish_execute_result ==
  /\ host_ready
  /\ events' = events + 1
  /\ \E data \in {Plain, WidgetText} :
       host_send_iopub(publish_execute_result(data, execution_count, 0), "idle")
  /\ UNCHANGED <<sharedVars, hres, htmp, hcell, depth, ncells, close_state,
                 unlink_failed, closes>>
  /\ UNCHANGED shellRest
  /\ UNCHANGED hbVars

  /\ UNCHANGED <<key, session_id, hcall, terminates>>
\* IPythonBridge.publish_display_data(data, metadata, transient), called
\* directly.
call_publish_display_data ==
  /\ host_ready
  /\ events' = events + 1
  /\ \E data \in {Plain, WidgetText} :
       host_send_iopub(publish_display_data(data), "idle")
  /\ UNCHANGED <<sharedVars, hres, htmp, hcell, depth, ncells, close_state,
                 unlink_failed, closes>>
  /\ UNCHANGED shellRest
  /\ UNCHANGED hbVars

  /\ UNCHANGED <<key, session_id, hcall, terminates>>
\* --------------------------------------------------------------------- close
\* close(): self._running = False
close_begin ==
  /\ host_ready /\ close_state # "closing"
  /\ events' = events + 1
  /\ running' = FALSE
  /\ close_state' = "closing"
  /\ hpc' = "close_join_shell" /\ herr' = "none"
  /\ UNCHANGED <<ctx_alive, conn_file, conn_dir, execution_count,
                 in_displayhook, installed, iopub, shell_out>>
  /\ UNCHANGED <<hmsg, hres, htmp, hcell, depth, ncells, unlink_failed, closes>>
  /\ UNCHANGED <<shellVars, hbVars>>

  /\ UNCHANGED <<key, session_id, hcall, terminates>>
\* self._shell_thread.join(timeout=2) returns: the thread has ended, or the
\* two seconds ran out while it evaluates a user expression.
close_join_shell ==
  /\ hpc = "close_join_shell"
  /\ spc \in {"exited", "died", "ex_eval"}
  /\ hpc' = "close_join_hb"
  /\ UNCHANGED <<sharedVars, hmsg, hres, htmp, hcell, depth, herr, ncells,
                 close_state, unlink_failed, closes>>
  /\ UNCHANGED <<shellVars, hbVars>>
  /\ UNCHANGED events

  /\ UNCHANGED <<key, session_id, hcall, terminates>>
\* self._hb_thread.join(timeout=2) returns.
close_join_hb ==
  /\ hpc = "close_join_hb"
  /\ bpc = "exited"
  /\ hpc' = "close_destroy"
  /\ UNCHANGED <<sharedVars, hmsg, hres, htmp, hcell, depth, herr, ncells,
                 close_state, unlink_failed, closes>>
  /\ UNCHANGED <<shellVars, hbVars>>
  /\ UNCHANGED events

  /\ UNCHANGED <<key, session_id, hcall, terminates>>
\* self._ctx.destroy(linger=0)
close_destroy ==
  /\ hpc = "close_destroy"
  /\ ctx_alive' = FALSE
  /\ hpc' = "close_unlink"
  /\ UNCHANGED <<running, conn_file, conn_dir, execution_count, in_displayhook,
                 installed, iopub, shell_out>>
  /\ UNCHANGED <<hmsg, hres, htmp, hcell, depth, herr, ncells,
                 close_state, unlink_failed, closes>>
  /\ UNCHANGED <<shellVars, hbVars>>
  /\ UNCHANGED events

  /\ UNCHANGED <<key, session_id, hcall, terminates>>
\* close returns to its caller.
close_return ==
  /\ hpc' = "idle" /\ close_state' = "closed" /\ closes' = closes + 1

\* A close that leaves out the unlink.
close_unlink_left_out ==
  /\ hpc = "close_unlink"
  /\ close_return
  /\ UNCHANGED <<sharedVars, hmsg, hres, htmp, hcell, depth, herr, ncells,
                 unlink_failed>>
  /\ UNCHANGED <<shellVars, hbVars>>
  /\ UNCHANGED events

  /\ UNCHANGED <<key, session_id, hcall, terminates>>
\* self._connection_file.unlink(): removes the file, and rmdir is next; or
\* raises OSError (the removal is refused, or the file is already gone),
\* which close swallows, skipping rmdir.
close_unlink ==
  /\ hpc = "close_unlink"
  /\ \/ /\ conn_file
        /\ conn_file' = FALSE /\ unlink_failed' = FALSE
        /\ hpc' = "close_rmdir"
        /\ UNCHANGED <<close_state, closes>>
     \/ /\ conn_file
        /\ conn_file' = TRUE /\ unlink_failed' = TRUE
        /\ close_return
     \/ /\ ~conn_file
        /\ UNCHANGED <<conn_file, unlink_failed>>
        /\ close_return
  /\ UNCHANGED <<running, ctx_alive, conn_dir, execution_count, in_displayhook,
                 installed, iopub, shell_out>>
  /\ UNCHANGED <<hmsg, hres, htmp, hcell, depth, herr, ncells>>
  /\ UNCHANGED <<shellVars, hbVars>>
  /\ UNCHANGED events

  /\ UNCHANGED <<key, session_id, hcall, terminates>>
\* self._connection_file.parent.rmdir(): removes the directory, or raises
\* OSError, which close swallows.
close_rmdir ==
  /\ hpc = "close_rmdir"
  /\ \E removed \in BOOLEAN : conn_dir' = (conn_dir /\ ~removed)
  /\ close_return
  /\ UNCHANGED <<running, ctx_alive, conn_file, execution_count, in_displayhook,
                 installed, iopub, shell_out>>
  /\ UNCHANGED <<hmsg, hres, htmp, hcell, depth, herr, ncells, unlink_failed>>
  /\ UNCHANGED <<shellVars, hbVars>>
  /\ UNCHANGED events

  /\ UNCHANGED <<key, session_id, hcall, terminates>>
\* ------------------------------------------------------------ Shell frames
\* Frames are byte strings.  The header and content frames a client can send,
\* and what json.loads makes of them (a dict is a function on its keys).
HDR_KI_1     == "{msg_id: m1, session: c, msg_type: kernel_info_request}"
HDR_KI_2     == "{ msg_id:m2 , session:c , msg_type:kernel_info_request }"
HDR_EX_1     == "{msg_id: m3, session: c, msg_type: execute_request}"
HDR_OTHER    == "{msg_id: m4, session: c, msg_type: comm_info_request}"
HDR_NOTYPE   == "{msg_id: m5, session: c}"
NOT_JSON     == "<bytes that are not JSON>"
EMPTY_OBJECT == "{}"
CONTENT_UE_EMPTY == "{code: '', silent: true, user_expressions: {}}"
CONTENT_UE_OK    == "{code: 'print(1)', user_expressions: {x: '1+1'}}"
CONTENT_UE_MIXED == "{code: '', user_expressions: {x: '1+1', y: 'undefined'}}"
CONTENT_UE_EXIT  == "{code: '', user_expressions: {x: 'exit()'}}"
CONTENT_UE_NULL  == "{code: '', user_expressions: null}"
CONTENT_UE_WRITE == "{code: 'x = 1', silent: false, store_history: true, allow_stdin: true, user_expressions: {x: 'sys.stdout.write(chr(120))'}}"

Header(msg_id, msg_type) ==
  ("msg_id" :> msg_id) @@ ("session" :> "c") @@ ("msg_type" :> msg_type)

\* A JSON value under user_expressions: a dict, as its items in order, or not
\* a dict.
UserExpressions(items) == "user_expressions" :> [isdict |-> TRUE, items |-> items]

json_loads(frame) ==
  CASE frame = HDR_KI_1   -> [ok |-> TRUE, v |-> Header("m1", "kernel_info_request")]
    [] frame = HDR_KI_2   -> [ok |-> TRUE, v |-> Header("m2", "kernel_info_request")]
    [] frame = HDR_EX_1   -> [ok |-> TRUE, v |-> Header("m3", "execute_request")]
    [] frame = HDR_OTHER  -> [ok |-> TRUE, v |-> Header("m4", "comm_info_request")]
    [] frame = HDR_NOTYPE -> [ok |-> TRUE, v |-> ("msg_id" :> "m5") @@ ("session" :> "c")]
    [] frame = EMPTY_OBJECT     -> [ok |-> TRUE, v |-> EmptyDict]
    [] frame = CONTENT_UE_EMPTY -> [ok |-> TRUE, v |-> UserExpressions(<<>>)]
    [] frame = CONTENT_UE_OK    ->
         [ok |-> TRUE, v |-> UserExpressions(<<[key |-> "x", expr |-> "1+1"]>>)]
    [] frame = CONTENT_UE_MIXED ->
         [ok |-> TRUE, v |-> UserExpressions(<<[key |-> "x", expr |-> "1+1"],
                                               [key |-> "y", expr |-> "undefined"]>>)]
    [] frame = CONTENT_UE_EXIT  ->
         [ok |-> TRUE, v |-> UserExpressions(<<[key |-> "x", expr |-> "exit()"]>>)]
    [] frame = CONTENT_UE_WRITE ->
         [ok |-> TRUE, v |-> UserExpressions(<<[key |-> "x",
                                 expr |-> "sys.stdout.write(chr(120))"]>>)]
    [] frame = CONTENT_UE_NULL  ->
         [ok |-> TRUE, v |-> "user_expressions" :> [isdict |-> FALSE, items |-> <<>>]]
    [] OTHER -> [ok |-> FALSE, v |-> EmptyDict]

\* What eval(expr) does: returns a value, raises an Exception, or raises a
\* BaseException that is no Exception (SystemExit).
eval(expr) ==
  CASE expr = "1+1"       -> "value"
    [] expr = "sys.stdout.write(chr(120))" -> "value"
    [] expr = "undefined" -> "Exception"
    [] expr = "exit()"    -> "BaseException"
    [] OTHER              -> "Exception"

\* The text that evaluating expr writes to sys.stdout, in one write call.
writes(expr) == IF expr = "sys.stdout.write(chr(120))" THEN "x" ELSE ""

\* One entry of _handle_execute's results.
ok_entry ==
  ("status" :> "ok") @@ ("data" :> "{text/plain: repr(val)}") @@ ("metadata" :> "{}")
error_entry ==
  ("status" :> "error") @@ ("ename" :> "NameError") @@ ("evalue" :> "str(e)")
  @@ ("traceback" :> "[]")

\* A multipart message a client sends: identities, delimiter, signature and
\* the four payload frames.
Multipart(identities, signature, header, content) ==
  identities \o <<DELIM, signature, header, EMPTY_OBJECT, EMPTY_OBJECT, content>>

Requests ==
  { Multipart(<<>>, "hmac", HDR_KI_1, EMPTY_OBJECT),
    Multipart(<<"a", "b">>, "", HDR_KI_2, EMPTY_OBJECT),
    Multipart(<<"a">>, "hmac", HDR_EX_1, EMPTY_OBJECT),
    Multipart(<<"a">>, "hmac", HDR_EX_1, CONTENT_UE_EMPTY),
    Multipart(<<"b", "a">>, "bad", HDR_EX_1, CONTENT_UE_OK),
    Multipart(<<"a">>, "hmac", HDR_EX_1, CONTENT_UE_MIXED),
    Multipart(<<"a">>, "hmac", HDR_EX_1, CONTENT_UE_EXIT),
    Multipart(<<"a">>, "hmac", HDR_EX_1, CONTENT_UE_NULL),
    Multipart(<<"a">>, "hmac", HDR_EX_1, NOT_JSON),
    Multipart(<<"a">>, "hmac", HDR_OTHER, EMPTY_OBJECT),
    Multipart(<<"a">>, "hmac", HDR_NOTYPE, EMPTY_OBJECT),
    Multipart(<<"a">>, "hmac", NOT_JSON, EMPTY_OBJECT),
    <<"a", "hmac", HDR_KI_1, EMPTY_OBJECT, EMPTY_OBJECT, EMPTY_OBJECT>>,
    <<"a", DELIM, "hmac">>,
    <<"a", DELIM, "hmac", HDR_EX_1, EMPTY_OBJECT, EMPTY_OBJECT>> }

\* parts.index(b"<IDS|MSG>") + 1, or 0 for ValueError.
delim_index(parts) ==
  IF \E i \in 1..Len(parts) : parts[i] = DELIM
  THEN CHOOSE i \in 1..Len(parts) :
         parts[i] = DELIM /\ \A j \in 1..(i - 1) : parts[j] # DELIM
  ELSE 0

\* ------------------------------------------------------------ wire protocol
\* What _write_connection_file writes for a client to read.
connection_info ==
  [transport |-> "tcp", key |-> key, signature_scheme |-> "hmac-sha256",
   kernel_name |-> "python3"]

\* json.dumps(obj).encode(): the bytes of one frame, as a sequence.
json_dumps(obj) == <<"json", obj>>

\* HMAC-SHA256 of data under key k, as hex digits.
hmac_sha256(k, data) == [digest |-> "sha256", key |-> k, data |-> data]

\* _make_header(msg_type); msg_id and date are fresh on every call.
make_header(msg_type) ==
  [msg_type |-> msg_type, username |-> "ipython-bridge",
   session |-> session_id, version |-> "5.3"]

\* A signature that covers the header frame only.
sign_header_only(parts) == hmac_sha256(key, parts[1])

\* _sign(*parts): h.update(part) for each part in order, which is the HMAC of
\* their concatenation.
sign(parts) ==
  hmac_sha256(key, parts[1] \o parts[2] \o parts[3] \o parts[4])

\* A header that carries the session of the request it answers.
send_with_session_of_parent(identities, msg_type, parent_header, content) ==
  LET header_b  == json_dumps([make_header(msg_type) EXCEPT !.session = "c"])
      parent_b  == json_dumps(parent_header)
      meta_b    == json_dumps(EmptyDict)
      content_b == json_dumps(content)
      sig       == sign(<<header_b, parent_b, meta_b, content_b>>)
  IN  [identities |-> identities, delimiter |-> DELIM, signature |-> sig,
       header |-> header_b, parent_header |-> parent_b,
       metadata |-> meta_b, content |-> content_b]

\* _send(socket, identities, msg_type, parent_header, content): the frames
\* handed to send_multipart, in their order.
send(identities, msg_type, parent_header, content) ==
  LET header_b  == json_dumps(make_header(msg_type))
      parent_b  == json_dumps(parent_header)
      meta_b    == json_dumps(EmptyDict)
      content_b == json_dumps(content)
      sig       == sign(<<header_b, parent_b, meta_b, content_b>>)
  IN  [identities |-> identities, delimiter |-> DELIM, signature |-> sig,
       header |-> header_b, parent_header |-> parent_b,
       metadata |-> meta_b, content |-> content_b]

\* The content dict of an IOPub message, by its type (publish_*).
iopub_content(m) ==
  CASE m.type = "status" -> [execution_state |-> m.state]
    [] m.type = "stream" -> [name |-> m.name, text |-> m.text]
    [] m.type = "error"  -> [ename |-> "ename", evalue |-> "evalue"]
    [] m.type = "execute_result" -> [execution_count |-> m.count, data |-> m.data]
    [] OTHER -> [data |-> m.data]

\* The frames of an IOPub message (_send_iopub: no routing identities).
send_iopub(m) == send(<<>>, m.type, m.parent, iopub_content(m))

\* The frames of a reply on Shell.
send_shell(r) ==
  send(r.ids, r.type, r.parent,
       [status |-> r.status, execution_count |-> r.count,
        user_expressions |-> r.user_expressions])

\* What _send hands to send_multipart on the Shell socket.
shell_reply(identities, msg_type, parent, count, results) ==
  [type |-> msg_type, ids |-> identities, parent |-> parent, status |-> "ok",
   count |-> count, user_expressions |-> results]

\* A loop that goes on whatever the flag says.
shell_loop_top_ignores_running ==
  /\ spc = "top"
  /\ spc' = "poll"
  /\ UNCHANGED <<sids, sparent, sitems, sresults, shell_in, count_overlap, smsg>>
  /\ UNCHANGED <<sharedVars, hostVars, hbVars>>
  /\ UNCHANGED events
  /\ UNCHANGED <<key, session_id, hcall, terminates>>

\* --------------------------------------------------- Shell responder thread
\* `while self._running:`
shell_loop_top ==
  /\ spc = "top"
  /\ spc' = IF running THEN "poll" ELSE "exited"
  /\ UNCHANGED <<sids, sparent, sitems, sresults, shell_in, count_overlap, smsg>>
  /\ UNCHANGED <<sharedVars, hostVars, hbVars>>
  /\ UNCHANGED events

  /\ UNCHANGED <<key, session_id, hcall, terminates>>
\* poll(1000) returns 0: continue.
shell_poll_timeout ==
  /\ spc = "poll"
  /\ spc' = "top"
  /\ UNCHANGED <<sids, sparent, sitems, sresults, shell_in, count_overlap, smsg>>
  /\ UNCHANGED <<sharedVars, hostVars, hbVars>>
  /\ UNCHANGED events

  /\ UNCHANGED <<key, session_id, hcall, terminates>>
\* A dispatch that answers a msg_type it does not know.
shell_dispatch_answers_any(parts) ==
  LET di == delim_index(parts)
      identities == SubSeq(parts, 1, di - 1)
      header == json_loads(parts[di + 2])
      content == json_loads(parts[di + 5])
      user_expressions ==
        IF "user_expressions" \in DOMAIN content.v
        THEN content.v["user_expressions"]
        ELSE [isdict |-> TRUE, items |-> <<>>]
      dropped == /\ spc' = "top"
                 /\ UNCHANGED <<sids, sparent, sitems, sresults, shell_out>>
  IN
  IF di = 0 THEN dropped                                  \* ValueError
  ELSE IF Len(parts) < di + 2 THEN dropped                \* IndexError
  ELSE IF ~header.ok THEN dropped                         \* JSONDecodeError
  ELSE IF "msg_type" \notin DOMAIN header.v THEN dropped  \* KeyError
  ELSE IF header.v["msg_type"] = "kernel_info_request"
  THEN /\ shell_out' = Append(shell_out,
            shell_reply(identities, "kernel_info_reply", header.v, 0, EmptyDict))
       /\ sids' = identities /\ sparent' = header.v
       /\ spc' = "ki_status"
       /\ UNCHANGED <<sitems, sresults>>
  ELSE IF header.v["msg_type"] = "execute_request"
  THEN IF Len(parts) < di + 5 THEN dropped                \* IndexError
       ELSE IF ~content.ok THEN dropped                   \* JSONDecodeError
       ELSE IF ~user_expressions.isdict THEN dropped      \* AttributeError
       ELSE /\ sids' = identities /\ sparent' = header.v
            /\ sitems' = user_expressions.items
            /\ sresults' = EmptyDict
            /\ spc' = IF user_expressions.items = <<>> THEN "ex_reply" ELSE "ex_eval"
            /\ UNCHANGED shell_out
  ELSE /\ shell_out' = Append(shell_out,
            shell_reply(identities, "error_reply", header.v, 0, EmptyDict))
       /\ spc' = "top"
       /\ UNCHANGED <<sids, sparent, sitems, sresults>>

\* A dispatch that drops a message whose signature frame is not the valid one.
shell_dispatch_verifies(parts) ==
  LET di == delim_index(parts)
      identities == SubSeq(parts, 1, di - 1)
      header == json_loads(parts[di + 2])
      content == json_loads(parts[di + 5])
      user_expressions ==
        IF "user_expressions" \in DOMAIN content.v
        THEN content.v["user_expressions"]
        ELSE [isdict |-> TRUE, items |-> <<>>]
      dropped == /\ spc' = "top"
                 /\ UNCHANGED <<sids, sparent, sitems, sresults, shell_out>>
  IN
  IF di = 0 THEN dropped                                  \* ValueError
  ELSE IF Len(parts) < di + 1 THEN dropped
  ELSE IF parts[di + 1] # "hmac" THEN dropped
  ELSE IF Len(parts) < di + 2 THEN dropped                \* IndexError
  ELSE IF ~header.ok THEN dropped                         \* JSONDecodeError
  ELSE IF "msg_type" \notin DOMAIN header.v THEN dropped  \* KeyError
  ELSE IF header.v["msg_type"] = "kernel_info_request"
  THEN /\ shell_out' = Append(shell_out,
            shell_reply(identities, "kernel_info_reply", header.v, 0, EmptyDict))
       /\ sids' = identities /\ sparent' = header.v
       /\ spc' = "ki_status"
       /\ UNCHANGED <<sitems, sresults>>
  ELSE IF header.v["msg_type"] = "execute_request"
  THEN IF Len(parts) < di + 5 THEN dropped                \* IndexError
       ELSE IF ~content.ok THEN dropped                   \* JSONDecodeError
       ELSE IF ~user_expressions.isdict THEN dropped      \* AttributeError
       ELSE /\ sids' = identities /\ sparent' = header.v
            /\ sitems' = user_expressions.items
            /\ sresults' = EmptyDict
            /\ spc' = IF user_expressions.items = <<>> THEN "ex_reply" ELSE "ex_eval"
            /\ UNCHANGED shell_out
  ELSE dropped

\* What one iteration does with the message read by recv_multipart, up to
\* the first point where another thread matters: a message that is not
\* handled goes back to the loop top; a kernel_info_request has its reply
\* sent on Shell (_handle_kernel_info, first _send); an execute_request has
\* its user_expressions read (_handle_execute, first line).
shell_dispatch(parts) ==
  LET di == delim_index(parts)
      identities == SubSeq(parts, 1, di - 1)
      header == json_loads(parts[di + 2])
      content == json_loads(parts[di + 5])
      user_expressions ==
        IF "user_expressions" \in DOMAIN content.v
        THEN content.v["user_expressions"]
        ELSE [isdict |-> TRUE, items |-> <<>>]
      dropped == /\ spc' = "top"
                 /\ UNCHANGED <<sids, sparent, sitems, sresults, shell_out>>
  IN
  IF di = 0 THEN dropped                                  \* ValueError
  ELSE IF Len(parts) < di + 2 THEN dropped                \* IndexError
  ELSE IF ~header.ok THEN dropped                         \* JSONDecodeError
  ELSE IF "msg_type" \notin DOMAIN header.v THEN dropped  \* KeyError
  ELSE IF header.v["msg_type"] = "kernel_info_request"
  THEN /\ shell_out' = Append(shell_out,
            shell_reply(identities, "kernel_info_reply", header.v, 0, EmptyDict))
       /\ sids' = identities /\ sparent' = header.v
       /\ spc' = "ki_status"
       /\ UNCHANGED <<sitems, sresults>>
  ELSE IF header.v["msg_type"] = "execute_request"
  THEN IF Len(parts) < di + 5 THEN dropped                \* IndexError
       ELSE IF ~content.ok THEN dropped                   \* JSONDecodeError
       ELSE IF ~user_expressions.isdict THEN dropped      \* AttributeError
       ELSE /\ sids' = identities /\ sparent' = header.v
            /\ sitems' = user_expressions.items
            /\ sresults' = EmptyDict
            /\ spc' = IF user_expressions.items = <<>> THEN "ex_reply" ELSE "ex_eval"
            /\ UNCHANGED shell_out
  ELSE dropped

\* poll(1000) returns 1; recv_multipart; parse; dispatch.
shell_recv ==
  /\ spc = "poll" /\ events < MaxEvents
  /\ \E parts \in Requests :
       /\ shell_in' = Append(shell_in, parts)
       /\ shell_dispatch(parts)
  /\ events' = events + 1
  /\ UNCHANGED <<count_overlap, smsg>>
  /\ UNCHANGED <<running, ctx_alive, conn_file, conn_dir, execution_count,
                 in_displayhook, installed, iopub>>
  /\ UNCHANGED <<hostVars, hbVars>>

  /\ UNCHANGED <<key, session_id, hcall, terminates>>
\* A handler whose IOPub status does not carry the request header.
handle_kernel_info_status_no_parent ==
  /\ spc = "ki_status"
  /\ smsg' = [publish_status("shell", "idle", EmptyDict, 0) EXCEPT
                !.raced = (hmsg # NoMsg)]
  /\ hmsg' = IF hmsg # NoMsg THEN [hmsg EXCEPT !.raced = TRUE] ELSE hmsg
  /\ spc' = "ki_sending"
  /\ UNCHANGED <<sids, sparent, sitems, sresults, shell_in, count_overlap>>
  /\ UNCHANGED <<hpc, hres, htmp, hcell, depth, herr, ncells,
                 close_state, unlink_failed, closes>>
  /\ UNCHANGED <<sharedVars, hbVars>>
  /\ UNCHANGED events

  /\ UNCHANGED <<key, session_id, hcall, terminates>>
\* _handle_kernel_info, second send: _send_iopub("status", idle, parent).
handle_kernel_info_status ==
  /\ spc = "ki_status"
  /\ smsg' = [publish_status("shell", "idle", sparent, 0) EXCEPT
                !.raced = (hmsg # NoMsg)]
  /\ hmsg' = IF hmsg # NoMsg THEN [hmsg EXCEPT !.raced = TRUE] ELSE hmsg
  /\ spc' = "ki_sending"
  /\ UNCHANGED <<sids, sparent, sitems, sresults, shell_in, count_overlap>>
  /\ UNCHANGED <<hpc, hres, htmp, hcell, depth, herr, ncells,
                 close_state, unlink_failed, closes>>
  /\ UNCHANGED <<sharedVars, hbVars>>
  /\ UNCHANGED events

  /\ UNCHANGED <<key, session_id, hcall, terminates>>
\* send_multipart returns to the responder; back to the loop top.
shell_send_return ==
  /\ spc = "ki_sending"
  /\ iopub' = Append(iopub, smsg)
  /\ smsg' = NoMsg
  /\ spc' = "top"
  /\ UNCHANGED <<sids, sparent, sitems, sresults, shell_in, count_overlap>>
  /\ UNCHANGED <<running, ctx_alive, conn_file, conn_dir, execution_count,
                 in_displayhook, installed, shell_out>>
  /\ UNCHANGED <<hostVars, hbVars>>
  /\ UNCHANGED events

  /\ UNCHANGED <<key, session_id, hcall, terminates>>
\* _handle_execute: one turn of the loop over user_expressions.items().
handle_execute_eval ==
  /\ spc = "ex_eval"
  /\ writes(Head(sitems).expr) = ""
  /\ LET item == Head(sitems)
         outcome == eval(item.expr)
     IN  IF outcome = "BaseException"
         THEN spc' = "died" /\ UNCHANGED <<sitems, sresults>>
         ELSE /\ sresults' = (item.key :> (IF outcome = "value" THEN ok_entry
                                           ELSE error_entry)) @@ sresults
              /\ sitems' = Tail(sitems)
              /\ spc' = IF Tail(sitems) = <<>> THEN "ex_reply" ELSE "ex_eval"
  /\ UNCHANGED <<sids, sparent, shell_in, count_overlap, smsg>>
  /\ UNCHANGED <<sharedVars, hostVars, hbVars>>
  /\ UNCHANGED events

  /\ UNCHANGED <<key, session_id, hcall, terminates>>
\* poll(1000) returns 1 and the message read is an execute_request whose
\* user expression writes to sys.stdout.
shell_recv_write ==
  /\ spc = "poll" /\ events < MaxEvents
  /\ LET parts == Multipart(<<"a">>, "hmac", HDR_EX_1, CONTENT_UE_WRITE)
     IN  /\ shell_in' = Append(shell_in, parts)
         /\ shell_dispatch(parts)
  /\ events' = events + 1
  /\ UNCHANGED <<count_overlap, smsg>>
  /\ UNCHANGED <<running, ctx_alive, conn_file, conn_dir, execution_count,
                 in_displayhook, installed, iopub>>
  /\ UNCHANGED <<hostVars, hbVars>>
  /\ UNCHANGED <<key, session_id, hcall, terminates>>

\* The value of the next turn of the loop over user_expressions once the
\* current item has its entry.
next_item(entry) ==
  /\ sresults' = (Head(sitems).key :> entry) @@ sresults
  /\ sitems' = Tail(sitems)
  /\ spc' = IF Tail(sitems) = <<>> THEN "ex_reply" ELSE "ex_eval"

\* _handle_execute, one turn of the loop whose eval(expr) writes to
\* sys.stdout on the Shell responder thread.  With the bridge installed
\* sys.stdout is the tee: the original gets the text, and when the guard
\* bridge._in_displayhook is low publish_stream sends on IOPub from this
\* thread; on a destroyed context that send raises ZMQError inside eval,
\* which `except Exception` turns into an error entry.
handle_execute_eval_write ==
  /\ spc = "ex_eval"
  /\ writes(Head(sitems).expr) # ""
  /\ IF installed /\ ~in_displayhook /\ ctx_alive
     THEN /\ smsg' = [publish_stream("shell", "stdout", writes(Head(sitems).expr),
                                     FALSE) EXCEPT !.raced = (hmsg # NoMsg)]
          /\ hmsg' = IF hmsg # NoMsg THEN [hmsg EXCEPT !.raced = TRUE] ELSE hmsg
          /\ spc' = "ex_writing"
          /\ UNCHANGED <<sitems, sresults>>
     ELSE /\ next_item(IF installed /\ ~in_displayhook THEN error_entry
                       ELSE ok_entry)
          /\ UNCHANGED <<smsg, hmsg>>
  /\ UNCHANGED <<sids, sparent, shell_in, count_overlap>>
  /\ UNCHANGED <<hpc, hres, htmp, hcell, depth, herr, ncells,
                 close_state, unlink_failed, closes>>
  /\ UNCHANGED <<sharedVars, hbVars>>
  /\ UNCHANGED events
  /\ UNCHANGED <<key, session_id, hcall, terminates>>

\* send_multipart returns inside publish_stream; write returns, eval returns
\* its value and the entry is stored.
handle_execute_write_return ==
  /\ spc = "ex_writing"
  /\ iopub' = Append(iopub, smsg)
  /\ smsg' = NoMsg
  /\ next_item(ok_entry)
  /\ UNCHANGED <<sids, sparent, shell_in, count_overlap>>
  /\ UNCHANGED <<running, ctx_alive, conn_file, conn_dir, execution_count,
                 in_displayhook, installed, shell_out>>
  /\ UNCHANGED <<hostVars, hbVars>>
  /\ UNCHANGED events
  /\ UNCHANGED <<key, session_id, hcall, terminates>>

\* A handler that counts the request as an execution.
handle_execute_reply_counts ==
  /\ spc = "ex_reply"
  /\ count_overlap' = (count_overlap \/ hpc = "cell_store")
  /\ execution_count' = execution_count + 1
  /\ IF ctx_alive
     THEN /\ shell_out' = Append(shell_out,
               shell_reply(sids, "execute_reply", sparent, execution_count + 1,
                           sresults))
          /\ spc' = "top"
     ELSE /\ spc' = "exited"
          /\ UNCHANGED shell_out
  /\ UNCHANGED <<sids, sparent, sitems, sresults, shell_in, smsg>>
  /\ UNCHANGED <<running, ctx_alive, conn_file, conn_dir,
                 in_displayhook, installed, iopub>>
  /\ UNCHANGED <<hostVars, hbVars>>
  /\ UNCHANGED events
  /\ UNCHANGED <<key, session_id, hcall, terminates>>

\* _handle_execute: the reply is built (reading _execution_count) and sent
\* on Shell; on a destroyed context send_multipart raises ZMQError and the
\* loop breaks.
handle_execute_reply ==
  /\ spc = "ex_reply"
  /\ count_overlap' = (count_overlap \/ hpc = "cell_store")
  /\ IF ctx_alive
     THEN /\ shell_out' = Append(shell_out,
               shell_reply(sids, "execute_reply", sparent, execution_count, sresults))
          /\ spc' = "top"
     ELSE /\ spc' = "exited"
          /\ UNCHANGED shell_out
  /\ UNCHANGED <<sids, sparent, sitems, sresults, shell_in, smsg>>
  /\ UNCHANGED <<running, ctx_alive, conn_file, conn_dir, execution_count,
                 in_displayhook, installed, iopub>>
  /\ UNCHANGED <<hostVars, hbVars>>
  /\ UNCHANGED events

  /\ UNCHANGED <<key, session_id, hcall, terminates>>
\* ----------------------------------------------- Heartbeat responder thread
Payloads == {"ping", "pong"}

\* `while self._running:`
heartbeat_loop_top ==
  /\ bpc = "top"
  /\ bpc' = IF running THEN "poll" ELSE "exited"
  /\ UNCHANGED <<bmsg, hb_in, hb_out>>
  /\ UNCHANGED <<sharedVars, hostVars, shellVars>>
  /\ UNCHANGED events

  /\ UNCHANGED <<key, session_id, hcall, terminates>>
\* poll(1000) returns 0: continue.
heartbeat_poll_timeout ==
  /\ bpc = "poll"
  /\ bpc' = "top"
  /\ UNCHANGED <<bmsg, hb_in, hb_out>>
  /\ UNCHANGED <<sharedVars, hostVars, shellVars>>
  /\ UNCHANGED events

  /\ UNCHANGED <<key, session_id, hcall, terminates>>
\* poll(1000) returns 1; msg = self._hb_socket.recv()
heartbeat_recv ==
  /\ bpc = "poll" /\ Len(hb_in) < MaxHb
  /\ \E payload \in Payloads :
       /\ bmsg' = payload
       /\ hb_in' = Append(hb_in, payload)
  /\ bpc' = "recvd"
  /\ UNCHANGED hb_out
  /\ UNCHANGED <<sharedVars, hostVars, shellVars>>
  /\ UNCHANGED events

  /\ UNCHANGED <<key, session_id, hcall, terminates>>
\* A responder that answers every frame with the same bytes.
heartbeat_send_fixed ==
  /\ bpc = "recvd"
  /\ hb_out' = Append(hb_out, "ping")
  /\ bpc' = "top"
  /\ UNCHANGED <<bmsg, hb_in>>
  /\ UNCHANGED <<sharedVars, hostVars, shellVars>>
  /\ UNCHANGED events

  /\ UNCHANGED <<key, session_id, hcall, terminates>>
\* self._hb_socket.send(msg)
heartbeat_send ==
  /\ bpc = "recvd"
  /\ hb_out' = Append(hb_out, bmsg)
  /\ bpc' = "top"
  /\ UNCHANGED <<bmsg, hb_in>>
  /\ UNCHANGED <<sharedVars, hostVars, shellVars>>
  /\ UNCHANGED events

  /\ UNCHANGED <<key, session_id, hcall, terminates>>
\* ---------------------------------------------------------- specification
Host ==
  \/ host_send_return
  \/ install_bridge
  \/ post_run_cell_load \/ post_run_cell_busy \/ post_run_cell_mid \/ post_run_cell_idle
  \/ TeeStream_write
  \/ displayhook_wrapper_enter \/ displayhook_wrapper_exit
  \/ patched_publish
  \/ call_publish_execute_result \/ call_publish_display_data
  \/ close_begin \/ close_join_shell \/ close_join_hb \/ close_destroy
  \/ close_unlink \/ close_rmdir

ShellResponder ==
  \/ shell_loop_top \/ shell_poll_timeout \/ shell_recv
  \/ handle_kernel_info_status \/ shell_send_return
  \/ handle_execute_eval \/ handle_execute_reply

HeartbeatResponder ==
  \/ heartbeat_loop_top \/ heartbeat_poll_timeout \/ heartbeat_recv \/ heartbeat_send

\* The bridge with its three threads.  Heartbeat frames are left to
\* SpecHeartbeat: the Heartbeat responder shares only _running with the rest.
Next ==
  \/ Host
  \/ ShellResponder
  \/ heartbeat_loop_top \/ heartbeat_poll_timeout

Spec == Init /\ [][Next]_vars

\* The Heartbeat responder with its traffic, and close; of the Shell responder
\* only the loop that close waits for.
NextHeartbeat ==
  \/ HeartbeatResponder
  \/ close_begin \/ close_join_shell \/ close_join_hb \/ close_destroy
  \/ close_unlink \/ close_rmdir
  \/ shell_loop_top \/ shell_poll_timeout

SpecHeartbeat == Init /\ [][NextHeartbeat]_vars

\* The Shell responder with its traffic, the cell-finished observer (the
\* writer of _execution_count and the other sender on IOPub), and close; of
\* the Heartbeat responder only the loop that close waits for.
NextShell ==
  \/ ShellResponder
  \/ install_bridge \/ host_send_return
  \/ post_run_cell_load \/ post_run_cell_busy \/ post_run_cell_mid \/ post_run_cell_idle
  \/ close_begin \/ close_join_shell \/ close_join_hb \/ close_destroy
  \/ close_unlink \/ close_rmdir
  \/ heartbeat_loop_top \/ heartbeat_poll_timeout

SpecShell == Init /\ [][NextShell]_vars

\* ================================================================== claims

\* ---- what the cell-finished observer published for event c
CellMsgs(c) == SelectSeq(iopub, LAMBDA m : m.cell = c)

\* A status message reads as its execution_state, any other as its type.
Kind(m) == IF m.type = "status" THEN m.state ELSE m.type

Kinds(ms) == [i \in 1..Len(ms) |-> Kind(ms[i])]

Brackets ==
  {<<"busy", "idle">>, <<"busy", "execute_result", "idle">>,
   <<"busy", "error", "idle">>}

\* The observer has returned (or raised) for event c and nothing of it is
\* still being sent.
Finished(c) == c \in 1..ncells /\ hcell # c /\ hmsg.cell # c

\* C1: for every cell-finished event the observer publishes, in order,
\* exactly one status busy, then at most one execute_result or error, then
\* exactly one status idle: while the observer runs, what it has published
\* is the beginning of such a bracket, and a whole bracket once it is done.
C1_StatusBracket ==
  \A c \in 1..ncells :
    LET k == Kinds(CellMsgs(c))
    IN  /\ \E b \in Brackets : Len(k) <= Len(b) /\ k = SubSeq(b, 1, Len(k))
        /\ Finished(c) => k \in Brackets

\* C2: the messages of one cell-finished event are contiguous on IOPub: no
\* message of another origin lies between two messages of the same event.
C2_BracketContiguous ==
  \A i, j \in 1..Len(iopub) :
    (i < j /\ iopub[i].cell # 0 /\ iopub[i].cell = iopub[j].cell)
      => \A k \in i..j : iopub[k].cell = iopub[i].cell

\* C3: once the observer has published status busy for an event, status idle
\* for that event is published too by the time the observer is done, also
\* when the step in between raises.
C3_IdleAlwaysFollowsBusy ==
  \A c \in 1..ncells :
    (Finished(c) /\ \E i \in 1..Len(iopub) :
                      iopub[i].cell = c /\ Kind(iopub[i]) = "busy")
      => \E j \in 1..Len(iopub) : iopub[j].cell = c /\ Kind(iopub[j]) = "idle"

\* C4: a mutex serialises the sends on IOPub and the accesses to
\* ExecutionCount: the host thread and the Shell responder are never both
\* inside a send on the IOPub socket, and the responder never reads
\* ExecutionCount between the load and the store of the host's increment.
C4_IOPubAndCountSerialised ==
  /\ ~(hmsg # NoMsg /\ smsg # NoMsg)
  /\ ~count_overlap

\* C5: no execute_result, display_data or update_display_data message on
\* IOPub carries the widget-view key in its data.
C5_NoWidgetOnWire ==
  \A i \in 1..Len(iopub) :
    iopub[i].type \in {"execute_result", "display_data", "update_display_data"}
      => WIDGET_VIEW_MIMETYPE \notin DOMAIN iopub[i].data

\* C6: no stream message on IOPub comes from a write made while an
\* invocation of the wrapped displayhook was in progress.
C6_NoStreamFromDisplayhook ==
  \A i \in 1..Len(iopub) : iopub[i].type = "stream" => ~iopub[i].inhook

\* C7 as stated: the connection file exists from the end of construction
\* until close starts, and does not exist once a close has finished.
C7_FileLifecycle ==
  /\ (close_state = "open" /\ closes = 0) => conn_file
  /\ closes > 0 => ~conn_file

\* C7 amended: the connection file exists from the end of construction until
\* close starts; once a close has finished it does not exist, unless the
\* latest unlink was refused with a filesystem error, which close swallows,
\* leaving the file in place.
C7_FileLifecycleUnlessUnlinkFails ==
  /\ (close_state = "open" /\ closes = 0) => conn_file
  /\ (closes > 0 /\ ~unlink_failed) => ~conn_file
  /\ (closes > 0 /\ unlink_failed) => conn_file

\* C7 witness: a close has finished and has removed the file.
C7_Witness == closes > 0 /\ ~unlink_failed /\ ~conn_file /\ close_state = "closed"

\* C8: every frame received on Heartbeat is answered with one frame of the
\* same bytes before the next frame is received, and nothing else is sent:
\* what was sent is what was received, but for the frame in hand.
C8_HeartbeatEcho ==
  /\ bpc = "recvd" => hb_in = Append(hb_out, bmsg)
  /\ bpc # "recvd" => hb_out = hb_in

\* C8 witness: two different frames have been received and echoed.
C8_Witness == Len(hb_out) = 2 /\ hb_out = hb_in /\ hb_out[1] # hb_out[2]

\* ---- the requests of one kind received on Shell, as the responder reads them
RequestHeader(parts) == json_loads(parts[delim_index(parts) + 2]).v

RequestIds(parts) == SubSeq(parts, 1, delim_index(parts) - 1)

HasType(parts, msg_type) ==
  /\ delim_index(parts) # 0
  /\ Len(parts) >= delim_index(parts) + 2
  /\ json_loads(parts[delim_index(parts) + 2]).ok
  /\ "msg_type" \in DOMAIN RequestHeader(parts)
  /\ RequestHeader(parts)["msg_type"] = msg_type

KernelInfoRequests == SelectSeq(shell_in, LAMBDA p : HasType(p, "kernel_info_request"))

KernelInfoReplies == SelectSeq(shell_out, LAMBDA r : r.type = "kernel_info_reply")

ShellStatuses == SelectSeq(iopub, LAMBDA m : m.by = "shell")

\* C9: every kernel_info_request received on Shell gets exactly one
\* kernel_info_reply on Shell with the request's identities in order and the
\* request header as parent_header, and then exactly one status idle on
\* IOPub with the same parent header (the i-th reply and the i-th status
\* belong to the i-th request; only the status of the request in hand may
\* still be missing).
C9_KernelInfoHandshake ==
  LET requests == KernelInfoRequests
      replies == KernelInfoReplies
      statuses == ShellStatuses
  IN  /\ Len(replies) = Len(requests)
      /\ \A i \in 1..Len(replies) :
           /\ replies[i].ids = RequestIds(requests[i])
           /\ replies[i].parent = RequestHeader(requests[i])
      /\ Len(statuses) =
           Len(requests) - (IF spc \in {"ki_status", "ki_sending"} THEN 1 ELSE 0)
      /\ \A i \in 1..Len(statuses) :
           /\ statuses[i].type = "status" /\ statuses[i].state = "idle"
           /\ statuses[i].parent = RequestHeader(requests[i])
           /\ statuses[i].parent["msg_id"] = RequestHeader(requests[i])["msg_id"]

\* C9 witness: two kernel_info_requests with different identities and
\* headers have been answered and the responder is back at its loop.
C9_Witness ==
  /\ Len(ShellStatuses) = 2 /\ Len(KernelInfoReplies) = 2 /\ spc = "top"
  /\ KernelInfoReplies[1].ids # KernelInfoReplies[2].ids
  /\ Len(KernelInfoReplies[1].ids) = 2
  /\ ShellStatuses[1].parent # ShellStatuses[2].parent

\* An execute_request the responder reads whole: content frame present, a
\* JSON object, its user_expressions absent or a dict.
RequestContent(parts) == json_loads(parts[delim_index(parts) + 5])

RequestUserExpressions(parts) ==
  IF "user_expressions" \in DOMAIN RequestContent(parts).v
  THEN RequestContent(parts).v["user_expressions"]
  ELSE [isdict |-> TRUE, items |-> <<>>]

IsExecuteRequest(parts) ==
  /\ HasType(parts, "execute_request")
  /\ Len(parts) >= delim_index(parts) + 5
  /\ RequestContent(parts).ok
  /\ RequestUserExpressions(parts).isdict

ExecuteRequests == SelectSeq(shell_in, IsExecuteRequest)

ExecuteReplies == SelectSeq(shell_out, LAMBDA r : r.type = "execute_reply")

\* C10: every execute_request received on Shell gets exactly one
\* execute_reply with the request's identities and header, status ok, an
\* execution_count the bridge has had, and one user_expressions entry per
\* requested key: status ok when the evaluation returns, status error when
\* it raises (only the reply of the request in hand may still be missing).
C10_ExecuteReply ==
  /\ Len(ExecuteReplies) =
       Len(ExecuteRequests) - (IF spc \in {"ex_eval", "ex_reply"} THEN 1 ELSE 0)
  /\ \A i \in 1..Len(ExecuteReplies) :
       LET r == ExecuteReplies[i]
           items == RequestUserExpressions(ExecuteRequests[i]).items
       IN  /\ r.ids = RequestIds(ExecuteRequests[i])
           /\ r.parent = RequestHeader(ExecuteRequests[i])
           /\ r.status = "ok"
           /\ r.count \in 0..execution_count
           /\ DOMAIN r.user_expressions = {items[n].key : n \in 1..Len(items)}
           /\ \A n \in 1..Len(items) :
                r.user_expressions[items[n].key]["status"] =
                  IF eval(items[n].expr) = "value" THEN "ok" ELSE "error"

\* C11: a user expression that raises while an execute_request is handled is
\* never propagated: the Shell responder is not ended by it, and the reply
\* for the request reports the failure under the expression's key with
\* status error.
C11_EvaluationNeverPropagates ==
  /\ spc # "died"
  /\ \A i \in 1..Len(ExecuteReplies) :
       LET items == RequestUserExpressions(ExecuteRequests[i]).items
       IN  \A n \in 1..Len(items) :
             eval(items[n].expr) # "value"
               => /\ items[n].key \in DOMAIN ExecuteReplies[i].user_expressions
                  /\ ExecuteReplies[i].user_expressions[items[n].key]["status"] = "error"

\* An inbound Shell message that is not handled: no <IDS|MSG> delimiter, too
\* few frames after it, a header or content that is not JSON, a header
\* without msg_type, or a msg_type other than the two that are handled.
Unhandled(parts) ==
  LET di == delim_index(parts)
  IN  IF di = 0 THEN TRUE
      ELSE IF Len(parts) < di + 2 THEN TRUE
      ELSE IF ~json_loads(parts[di + 2]).ok THEN TRUE
      ELSE IF "msg_type" \notin DOMAIN RequestHeader(parts) THEN TRUE
      ELSE IF RequestHeader(parts)["msg_type"] = "kernel_info_request" THEN FALSE
      ELSE IF RequestHeader(parts)["msg_type"] = "execute_request"
      THEN Len(parts) < di + 5 \/ ~json_loads(parts[di + 5]).ok
      ELSE TRUE

\* C12: the step that receives a message that is not handled sends nothing
\* on Shell or IOPub, leaves ExecutionCount and the running flag as they
\* are, and leaves the Shell responder at the top of its loop, from where it
\* answers the next request.
C12_UnhandledDroppedSilently ==
  [][(shell_in' # shell_in /\ Unhandled(shell_in'[Len(shell_in')]))
       => /\ shell_out' = shell_out /\ iopub' = iopub /\ smsg' = smsg
          /\ execution_count' = execution_count
          /\ running' = running
          /\ spc' = "top"]_vars

\* C12 witness: a message that is not handled was received, and the
\* kernel_info_request received after it has been answered on both sockets.
C12_Witness ==
  /\ Len(shell_in) = 2 /\ Unhandled(shell_in[1]) /\ ~Unhandled(shell_in[2])
  /\ Len(shell_out) = 1 /\ shell_out[1].type = "kernel_info_reply"
  /\ Len(ShellStatuses) = 1 /\ spc = "top" /\ execution_count = 0

\* C13: ExecutionCount is 0 after construction, never decreases, and goes up
\* by exactly one for each cell-finished event, before anything is published
\* for the event: it equals the number of events delivered (less the one
\* whose increment is between load and store), and every message of event c,
\* sent or being sent, finds it at c or more.
C13_ExecutionCount ==
  /\ [](/\ execution_count = ncells - (IF hpc = "cell_store" THEN 1 ELSE 0)
        /\ ncells = 0 => execution_count = 0
        /\ \A i \in 1..Len(iopub) : iopub[i].cell <= execution_count
        /\ hmsg.cell <= execution_count)
  /\ [][execution_count' \in {execution_count, execution_count + 1}]_vars

\* C13 witness: two cell-finished events have been observed to their end,
\* each with its status busy on IOPub.
C13_Witness ==
  /\ ncells = 2 /\ execution_count = 2 /\ hpc = "idle" /\ hmsg = NoMsg
  /\ Kinds(CellMsgs(1))[1] = "busy" /\ Kinds(CellMsgs(2))[1] = "busy"

\* C20: the sockets are closed only after the responders have exited: once
\* close has destroyed the ZeroMQ context, neither the Shell responder nor
\* the Heartbeat responder is still running.
C20_RespondersExitedBeforeDestroy ==
  ~ctx_alive => (spc \in {"exited", "died"} /\ bpc = "exited")

\* Every message handed to a socket so far, or being sent, as its frames.
SentFrames ==
  {send_iopub(iopub[i]) : i \in 1..Len(iopub)}
    \cup {send_shell(shell_out[i]) : i \in 1..Len(shell_out)}
    \cup {send_iopub(m) : m \in {hmsg, smsg} \ {NoMsg}}

\* C14: in every message sent on IOPub or Shell the signature frame is the
\* HMAC-SHA256, under the key written to the connection file, of the header,
\* parent_header, metadata and content frames of that message, in that order.
C14_SignatureCoversFrames ==
  \A p \in SentFrames :
    p.signature = hmac_sha256(connection_info.key,
                    p.header \o p.parent_header \o p.metadata \o p.content)

\* C14 witness: a Shell reply and IOPub messages of both threads have been
\* sent, with different parents and contents.
C14_Witness ==
  /\ \E i \in 1..Len(shell_out) : shell_out[i].type = "execute_reply"
  /\ \E i, j \in 1..Len(iopub) :
       /\ iopub[i].by = "host" /\ iopub[j].by = "shell"
       /\ send_iopub(iopub[i]).signature # send_iopub(iopub[j]).signature

\* C15: the header of every message the bridge sends, on IOPub and on Shell,
\* from either thread, carries the session assigned at construction; the
\* session and the key never change.
C15_SessionInEveryHeader ==
  /\ [](\A p \in SentFrames : p.header = json_dumps(p.header[2])
                               /\ p.header[2].session = session_id)
  /\ [][session_id' = session_id /\ key' = key]_vars

\* C15 witness: both threads have sent, on IOPub and on Shell, answering a
\* client whose own session differs from the bridge's.
C15_Witness ==
  /\ \E i \in 1..Len(shell_out) : shell_out[i].parent["session"] # session_id
  /\ \E i, j \in 1..Len(iopub) : iopub[i].by = "host" /\ iopub[j].by = "shell"

\* ------------------------------------------------- hook calls, one at a time
\* The hooks are plain functions of their arguments and of the little bridge
\* state they read.  Each call_* action below makes one such call from the
\* state after construction and records in hcall the arguments and what the
\* call did; SpecCalls is the specification made of these calls.
CallFrame ==
  UNCHANGED <<events, sharedVars, hostVars, shellVars, hbVars, key, session_id,
              terminates>>

\* The dicts a caller can pass to _rewrite_widget_data: any choice of keys
\* out of these, each with its value.
MimeValues ==
  (WIDGET_VIEW_MIMETYPE :> "w") @@ ("text/plain" :> "v")
    @@ ("text/html" :> "<b>v</b>") @@ ("image/png" :> "iVBOR")

MimeDicts == {[k \in ks |-> MimeValues[k]] : ks \in SUBSET DOMAIN MimeValues}

\* _rewrite_widget_data(data) with the objects it touches.  heap maps an
\* object to its value when the call returns: "arg" is the caller's dict,
\* "copy" the dict made by dict(data); ret is the object returned.  Writing
\* in place instead of copying: the caller's dict itself is rewritten.
rewrite_widget_data_in_place(data) ==
  IF WIDGET_VIEW_MIMETYPE \notin DOMAIN data
  THEN [heap |-> ("arg" :> data), ret |-> "arg"]
  ELSE [heap |-> ("arg" :> rewrite_widget_data(data)), ret |-> "arg"]

\* As the code has it: `data = dict(data)` rebinds the local name to a copy,
\* and del and the two assignments act on the copy.
rewrite_widget_data_call(data) ==
  IF WIDGET_VIEW_MIMETYPE \notin DOMAIN data
  THEN [heap |-> ("arg" :> data), ret |-> "arg"]
  ELSE [heap |-> ("arg" :> data) @@ ("copy" :> rewrite_widget_data(data)),
        ret  |-> "copy"]

call_rewrite_widget_data ==
  /\ hcall = NoCall
  /\ \E data \in MimeDicts :
       hcall' = [op |-> "rewrite_widget_data", data |-> data,
                 out |-> rewrite_widget_data_call(data)]
  /\ CallFrame

\* The caller has looked at the outcome.
call_return ==
  /\ hcall # NoCall
  /\ hcall' = NoCall
  /\ CallFrame

\* C19: _rewrite_widget_data(d) never changes d.  Without the widget-view key
\* it returns d itself.  With it, it returns another dict that has no
\* widget-view key, has the placeholder as text/html, has d's text/plain or
\* else the fallback text, and agrees with d on every other key.
C19_RewriteLeavesInputAlone ==
  hcall.op = "rewrite_widget_data" =>
    LET d == hcall.data
        r == hcall.out.heap[hcall.out.ret]
    IN  /\ hcall.out.heap["arg"] = d
        /\ WIDGET_VIEW_MIMETYPE \notin DOMAIN d => hcall.out.ret = "arg"
        /\ WIDGET_VIEW_MIMETYPE \in DOMAIN d =>
             /\ hcall.out.ret # "arg"
             /\ DOMAIN r = (DOMAIN d \ {WIDGET_VIEW_MIMETYPE})
                             \cup {"text/html", "text/plain"}
             /\ r["text/html"] = WIDGET_PLACEHOLDER_HTML
             /\ r["text/plain"] = IF "text/plain" \in DOMAIN d
                                  THEN d["text/plain"]
                                  ELSE WIDGET_FALLBACK_TEXT
             /\ \A k \in DOMAIN d \ {WIDGET_VIEW_MIMETYPE, "text/html", "text/plain"} :
                  r[k] = d[k]

\* C19 witness: a dict with the widget-view key, its own text/html and no
\* text/plain has been rewritten.
C19_Witness ==
  /\ hcall.op = "rewrite_widget_data"
  /\ {WIDGET_VIEW_MIMETYPE, "text/html", "image/png"} \subseteq DOMAIN hcall.data
  /\ "text/plain" \notin DOMAIN hcall.data

\* What _send_iopub does for the calling host thread: json.dumps raises
\* TypeError on a value it cannot encode, send_multipart raises ZMQError on
\* a socket whose context close() has destroyed; "none": the message is sent.
send_iopub_raises(m, alive) ==
  IF ~Serialisable(m.data) THEN "TypeError"
  ELSE IF ~alive THEN "ZMQError"
  ELSE "none"

\* What a call of the wrapped function does: it returns value, or it raises.
Returns(value) == [raised |-> "none", value |-> value]
Raises(e)      == [raised |-> e, value |-> 0]

\* What sys.stdout.write / sys.stderr.write of the host can do with a text.
OriginalWrites == {Returns(n) : n \in 0..2} \cup {Raises("ValueError")}

\* _TeeStream.write(text) as a function of name, text, the guard
\* bridge._in_displayhook, whether the bridge's context is alive, and what
\* the original's write does.  forwarded: the texts the original was given;
\* published: the messages handed to IOPub; result: what write does for its
\* caller.  This variant forgets to read the guard.
TeeStream_write_ignoring_guard(name, text, guard, alive, original) ==
  LET m == publish_stream("host", name, text, FALSE)
  IN  IF original.raised # "none"
      THEN [forwarded |-> <<text>>, published |-> <<>>, result |-> original]
      ELSE IF text # ""
      THEN IF send_iopub_raises(m, alive) # "none"
           THEN [forwarded |-> <<text>>, published |-> <<>>,
                 result |-> Raises(send_iopub_raises(m, alive))]
           ELSE [forwarded |-> <<text>>, published |-> <<m>>, result |-> original]
      ELSE [forwarded |-> <<text>>, published |-> <<>>, result |-> original]

\* As the code has it.
TeeStream_write_call(name, text, guard, alive, original) ==
  LET m == publish_stream("host", name, text, FALSE)
  IN  IF original.raised # "none"
      THEN [forwarded |-> <<text>>, published |-> <<>>, result |-> original]
      ELSE IF text # "" /\ ~guard
      THEN IF send_iopub_raises(m, alive) # "none"
           THEN [forwarded |-> <<text>>, published |-> <<>>,
                 result |-> Raises(send_iopub_raises(m, alive))]
           ELSE [forwarded |-> <<text>>, published |-> <<m>>, result |-> original]
      ELSE [forwarded |-> <<text>>, published |-> <<>>, result |-> original]

call_TeeStream_write ==
  /\ hcall = NoCall
  /\ \E name \in {"stdout", "stderr"}, text \in {"", "x", "xy"},
        guard \in BOOLEAN, alive \in BOOLEAN, original \in OriginalWrites :
       hcall' = [op |-> "write", name |-> name, text |-> text, guard |-> guard,
                 alive |-> alive, original |-> original,
                 out |-> TeeStream_write_call(name, text, guard, alive, original)]
  /\ CallFrame

DisplayCallArgs ==
  DisplayArgs \cup {[none |-> FALSE, dict |-> b] : b \in {WidgetOnly, Unencodable}}

\* The message patched_publish builds for a truthy data.
display_message(data, update) ==
  [publish_display_data(rewrite_widget_data(data.dict)) EXCEPT
     !.type = IF update THEN "update_display_data" ELSE "display_data"]

\* patched_publish(data, ..., update=update) as a function of its arguments,
\* of what the original publish does and of whether the bridge's context is
\* alive.  original: the arguments the original publish was called with, in
\* call order; published: the messages handed to IOPub; trace: the calls
\* made, in order.  This variant never looks at update.
patched_publish_always_display_data(data, update, original_raises, alive) ==
  LET m == display_message(data, FALSE)
      o == [data |-> data, update |-> update]
  IN  IF original_raises
      THEN [original |-> <<o>>, published |-> <<>>, trace |-> <<"original_publish">>,
            result |-> Raises("Exception")]
      ELSE IF ~data.none /\ DOMAIN data.dict # {}
      THEN IF send_iopub_raises(m, alive) # "none"
           THEN [original |-> <<o>>, published |-> <<>>,
                 trace |-> <<"original_publish", "_send_iopub">>,
                 result |-> Raises(send_iopub_raises(m, alive))]
           ELSE [original |-> <<o>>, published |-> <<m>>,
                 trace |-> <<"original_publish", "_send_iopub">>,
                 result |-> Returns(0)]
      ELSE [original |-> <<o>>, published |-> <<>>, trace |-> <<"original_publish">>,
            result |-> Returns(0)]

\* As the code has it.
patched_publish_call(data, update, original_raises, alive) ==
  LET m == display_message(data, update)
      o == [data |-> data, update |-> update]
  IN  IF original_raises
      THEN [original |-> <<o>>, published |-> <<>>, trace |-> <<"original_publish">>,
            result |-> Raises("Exception")]
      ELSE IF ~data.none /\ DOMAIN data.dict # {}
      THEN IF send_iopub_raises(m, alive) # "none"
           THEN [original |-> <<o>>, published |-> <<>>,
                 trace |-> <<"original_publish", "_send_iopub">>,
                 result |-> Raises(send_iopub_raises(m, alive))]
           ELSE [original |-> <<o>>, published |-> <<m>>,
                 trace |-> <<"original_publish", "_send_iopub">>,
                 result |-> Returns(0)]
      ELSE [original |-> <<o>>, published |-> <<>>, trace |-> <<"original_publish">>,
            result |-> Returns(0)]

call_patched_publish ==
  /\ hcall = NoCall
  /\ \E data \in DisplayCallArgs, update \in BOOLEAN,
        original_raises \in BOOLEAN, alive \in BOOLEAN :
       hcall' = [op |-> "publish", data |-> data, update |-> update,
                 original_raises |-> original_raises, alive |-> alive,
                 out |-> patched_publish_call(data, update, original_raises, alive)]
  /\ CallFrame

\* C18 as stated: a call of the patched display publisher first calls the
\* original publisher with the same arguments; when that has completed
\* normally an IOPub message is emitted, of type update_display_data if the
\* call is an update and display_data otherwise; when the original raises,
\* none is emitted.
C18_PatchedPublish ==
  hcall.op = "publish" =>
    /\ hcall.out.original = <<[data |-> hcall.data, update |-> hcall.update]>>
    /\ hcall.out.trace[1] = "original_publish"
    /\ hcall.original_raises => hcall.out.published = <<>>
    /\ ~hcall.original_raises =>
         /\ Len(hcall.out.published) = 1
         /\ hcall.out.published[1].type =
              IF hcall.update THEN "update_display_data" ELSE "display_data"

\* C18 amended: a call of the patched display publisher first calls the
\* original publisher once with the same arguments.  When the original
\* raises, the exception leaves the call and nothing is emitted.  When it
\* completes normally and data is None or empty, nothing is emitted.  When it
\* completes normally and data is not empty, exactly one IOPub message is
\* emitted, update_display_data if the call is an update and display_data
\* otherwise, carrying the rewritten data, unless the data cannot be
\* encoded as JSON or the bridge is closed: then nothing is emitted and the
\* TypeError or ZeroMQ error leaves the call.
C18_PatchedPublishTruthyData ==
  hcall.op = "publish" =>
    LET truthy == ~hcall.data.none /\ DOMAIN hcall.data.dict # {}
        sendable == Serialisable(hcall.data.dict) /\ hcall.alive
    IN  /\ hcall.out.original = <<[data |-> hcall.data, update |-> hcall.update]>>
        /\ hcall.out.trace[1] = "original_publish"
        /\ hcall.original_raises =>
             hcall.out.published = <<>> /\ hcall.out.result = Raises("Exception")
        /\ (~hcall.original_raises /\ ~truthy) =>
             hcall.out.published = <<>> /\ hcall.out.result = Returns(0)
        /\ (~hcall.original_raises /\ truthy /\ sendable) =>
             /\ Len(hcall.out.published) = 1
             /\ hcall.out.published[1].type =
                  IF hcall.update THEN "update_display_data" ELSE "display_data"
             /\ hcall.out.published[1].data = rewrite_widget_data(hcall.data.dict)
             /\ hcall.out.result = Returns(0)
        /\ (~hcall.original_raises /\ truthy /\ ~sendable) =>
             /\ hcall.out.published = <<>>
             /\ hcall.out.result.raised \in {"TypeError", "ZMQError"}
             /\ hcall.out.result.raised = "TypeError" <=>
                  ~Serialisable(hcall.data.dict)

\* C18 witness: an update call with a widget bundle on an open bridge, whose
\* original publish returned, has emitted its update_display_data.
C18_Witness ==
  /\ hcall.op = "publish" /\ hcall.update /\ ~hcall.original_raises
  /\ hcall.alive /\ hcall.data.dict = WidgetText
  /\ Len(hcall.out.published) = 1
  /\ hcall.out.published[1].type = "update_display_data"

\* A host interpreter by what install_bridge hangs on it, each a sequence in
\* installation order of the bridges concerned (a bridge is named by its
\* number): bridges, the IPythonBridge objects constructed, each with its own
\* endpoint and connection file; observers, the post_run_cell callbacks
\* registered; stdout, stderr, the tee streams stacked on the original
\* stream; publish, the wrappers stacked on display_pub.publish;
\* displayhook, the wrappers stacked on the displayhook.
NewHost ==
  [bridges |-> <<>>, observers |-> <<>>, stdout |-> <<>>, stderr |-> <<>>,
   publish |-> <<>>, displayhook |-> <<>>]

\* One call of install_bridge(ip): a new IPythonBridge, and every hook is
\* added on top of what is there.
install_hooks(host) ==
  LET bridge == Len(host.bridges) + 1
  IN  [bridges     |-> Append(host.bridges, bridge),
       displayhook |-> Append(host.displayhook, bridge),
       observers   |-> Append(host.observers, bridge),
       stdout      |-> Append(host.stdout, bridge),
       stderr      |-> Append(host.stderr, bridge),
       publish     |-> Append(host.publish, bridge)]

\* The host after n calls of install_bridge.
RECURSIVE installed_host(_)
installed_host(n) ==
  IF n = 0 THEN NewHost ELSE install_hooks(installed_host(n - 1))

\* The messages of ms, each with the bridge whose IOPub socket it went to.
OnBridge(bridge, ms) == [i \in 1..Len(ms) |-> [bridge |-> bridge, msg |-> ms[i]]]

\* write(text) on the outermost tee of a stack: each tee's original is the
\* tee below it, the lowest one's the host's stream.
RECURSIVE stack_write(_, _, _)
stack_write(stack, name, text) ==
  IF stack = <<>> THEN [published |-> <<>>, result |-> Returns(Len(text))]
  ELSE LET below == stack_write(SubSeq(stack, 1, Len(stack) - 1), name, text)
           out   == TeeStream_write_call(name, text, FALSE, TRUE, below.result)
       IN  [published |-> below.published
                            \o OnBridge(stack[Len(stack)], out.published),
            result    |-> out.result]

\* publish(data) on the outermost wrapper of a stack: each wrapper's
\* original_publish is the wrapper below it.
RECURSIVE stack_publish(_, _, _)
stack_publish(stack, data, update) ==
  IF stack = <<>> THEN [published |-> <<>>, result |-> Returns(0)]
  ELSE LET below == stack_publish(SubSeq(stack, 1, Len(stack) - 1), data, update)
           out   == patched_publish_call(data, update,
                                         below.result.raised # "none", TRUE)
       IN  [published |-> below.published
                            \o OnBridge(stack[Len(stack)], out.published),
            result    |-> out.result]

\* One cell-finished event without a result: the host calls each registered
\* post_run_cell in turn; each publishes busy and idle on its own bridge.
RECURSIVE run_observers(_)
run_observers(observers) ==
  IF observers = <<>> THEN <<>>
  ELSE OnBridge(observers[1],
                <<publish_status("host", "busy", EmptyDict, 1),
                  publish_status("host", "idle", EmptyDict, 1)>>)
         \o run_observers(Tail(observers))

\* install_bridge(ip) called n times on a new host, and then one write to
\* sys.stdout, one cell and one display call.
call_install_bridge ==
  /\ hcall = NoCall
  /\ \E n \in 1..MaxInstalls :
       LET host == installed_host(n)
       IN  hcall' = [op |-> "install", n |-> n, host |-> host,
                     write   |-> stack_write(host.stdout, "stdout", "x").published,
                     cell    |-> run_observers(host.observers),
                     display |-> stack_publish(host.publish,
                                   [none |-> FALSE, dict |-> Plain], FALSE).published]
  /\ CallFrame

\* ---------------------------------------------------------- binary discovery
\* The three places find_binary looks at, as what the host has there.
\*   env_path     os.environ.get("RUNTIMED_RUNT_PATH"): "None" (unset), the
\*                empty string, or a path
\*   env_isfile   os.path.isfile(env_path)
\*   scripts_isfile  os.path.isfile(<scripts directory>/runt)
\*   which_result shutil.which("runt"): "None" or a path
ENV_PATH     == "/env/runt"
SCRIPTS_PATH == "/scripts/runt"
WHICH_PATH   == "/usr/bin/runt"

BinaryHosts ==
  [env_path : {"None", "", ENV_PATH}, env_isfile : BOOLEAN,
   scripts_isfile : BOOLEAN, which_result : {"None", WHICH_PATH}]

\* A search that asks PATH before the scripts directory.
find_binary_path_first(host) ==
  LET env_set   == host.env_path \notin {"None", ""}
      searched1 == IF env_set /\ ~host.env_isfile THEN <<"env">> ELSE <<>>
  IN  IF env_set /\ host.env_isfile
      THEN [raised |-> "none", path |-> host.env_path, searched |-> <<>>]
      ELSE IF host.which_result # "None"
      THEN [raised |-> "none", path |-> host.which_result, searched |-> searched1]
      ELSE IF host.scripts_isfile
      THEN [raised |-> "none", path |-> SCRIPTS_PATH,
            searched |-> searched1 \o <<"PATH">>]
      ELSE [raised |-> "BinaryNotFoundError", path |-> "",
            searched |-> searched1 \o <<"PATH", "scripts">>]

\* find_binary("runt"): the path returned, or BinaryNotFoundError raised
\* with the places searched.
find_binary(host) ==
  LET env_set   == host.env_path \notin {"None", ""}      \* `if env_path:`
      searched1 == IF env_set /\ ~host.env_isfile THEN <<"env">> ELSE <<>>
  IN  IF env_set /\ host.env_isfile
      THEN [raised |-> "none", path |-> host.env_path, searched |-> <<>>]
      ELSE IF host.scripts_isfile
      THEN [raised |-> "none", path |-> SCRIPTS_PATH, searched |-> searched1]
      ELSE IF host.which_result # "None"
      THEN [raised |-> "none", path |-> host.which_result,
            searched |-> searched1 \o <<"scripts">>]
      ELSE [raised |-> "BinaryNotFoundError", path |-> "",
            searched |-> searched1 \o <<"scripts", "PATH">>]

call_find_binary ==
  /\ hcall = NoCall
  /\ \E host \in BinaryHosts :
       hcall' = [op |-> "find_binary", host |-> host, out |-> find_binary(host)]
  /\ CallFrame

NextCalls ==
  \/ call_rewrite_widget_data
  \/ call_TeeStream_write
  \/ call_patched_publish
  \/ call_install_bridge
  \/ call_find_binary
  \/ call_return

SpecCalls == Init /\ [][NextCalls]_vars

\* C16: after install_bridge has been called any number of times on one
\* host there is one endpoint, one write produces exactly one stream
\* message, one cell exactly one busy/idle bracket, and one display call
\* exactly one display message.
C16_InstallIdempotent ==
  hcall.op = "install" =>
    /\ Len(hcall.host.bridges) = 1
    /\ Len(hcall.write) = 1
    /\ Len(SelectSeq(hcall.cell, LAMBDA m : m.msg.state = "busy")) = 1
    /\ Len(SelectSeq(hcall.cell, LAMBDA m : m.msg.state = "idle")) = 1
    /\ Len(hcall.display) = 1

\* C23: find_binary looks at the environment override, then the scripts
\* directory, then PATH, and returns the first that is present: an override
\* naming an existing file wins, an override naming a missing file falls
\* through, and BinaryNotFoundError is raised exactly when none of the three
\* yields a binary.
C23_FindBinaryOrder ==
  hcall.op = "find_binary" =>
    LET h == hcall.host
        env_yields == h.env_path \notin {"None", ""} /\ h.env_isfile
        which_yields == h.which_result # "None"
    IN  /\ env_yields => hcall.out = [raised |-> "none", path |-> h.env_path,
                                      searched |-> <<>>]
        /\ (~env_yields /\ h.scripts_isfile) =>
             hcall.out.raised = "none" /\ hcall.out.path = SCRIPTS_PATH
        /\ (~env_yields /\ ~h.scripts_isfile /\ which_yields) =>
             hcall.out.raised = "none" /\ hcall.out.path = h.which_result
        /\ hcall.out.raised = "BinaryNotFoundError" <=>
             (~env_yields /\ ~h.scripts_isfile /\ ~which_yields)

\* C23 witness: an override that names a missing file has fallen through to
\* the scripts directory, with a binary on PATH as well.
C23_Witness ==
  /\ hcall.op = "find_binary"
  /\ hcall.host.env_path = ENV_PATH /\ ~hcall.host.env_isfile
  /\ hcall.host.scripts_isfile /\ hcall.host.which_result = WHICH_PATH
  /\ hcall.out.path = SCRIPTS_PATH

\* ------------------------------------------------ close and its error exits
\* An exception leaves close from one of the statements outside its try: a
\* KeyboardInterrupt while the host thread waits in join(timeout=2), or a
\* ZMQError from ctx.destroy.  Nothing after the raising statement runs; a
\* destroy that raised may or may not have closed the sockets.
close_raise ==
  /\ hpc \in {"close_join_shell", "close_join_hb", "close_destroy"}
  /\ hmsg = NoMsg
  /\ herr' = IF hpc = "close_destroy" THEN "ZMQError" ELSE "KeyboardInterrupt"
  /\ \E destroyed \in BOOLEAN :
       ctx_alive' = (ctx_alive /\ ~(hpc = "close_destroy" /\ destroyed))
  /\ hpc' = "idle"
  /\ close_state' = "raised"
  /\ UNCHANGED <<running, conn_file, conn_dir, execution_count, in_displayhook,
                 installed, iopub, shell_out>>
  /\ UNCHANGED <<hmsg, hres, htmp, hcell, depth, ncells, unlink_failed, closes>>
  /\ UNCHANGED <<shellVars, hbVars>>
  /\ UNCHANGED events
  /\ UNCHANGED <<key, session_id, hcall, terminates>>

\* BridgedSidecar.close(), first statement: super().close(), which is
\* self._process.terminate().  A BridgedSidecar exists once
\* _launch_bridged_sidecar has installed the bridge.
BridgedSidecar_close ==
  /\ host_ready /\ installed /\ close_state # "closing"
  /\ events' = events + 1
  /\ terminates' = terminates + 1
  /\ hpc' = "sidecar_bridge_close" /\ herr' = "none"
  /\ UNCHANGED sharedVars
  /\ UNCHANGED <<hmsg, hres, htmp, hcell, depth, ncells, close_state,
                 unlink_failed, closes>>
  /\ UNCHANGED <<shellVars, hbVars>>
  /\ UNCHANGED <<key, session_id, hcall>>

\* BridgedSidecar.close(), second statement: self._bridge.close() is
\* entered and sets self._running = False; the rest of close follows.
BridgedSidecar_close_bridge ==
  /\ hpc = "sidecar_bridge_close"
  /\ running' = FALSE
  /\ close_state' = "closing"
  /\ hpc' = "close_join_shell"
  /\ UNCHANGED <<ctx_alive, conn_file, conn_dir, execution_count,
                 in_displayhook, installed, iopub, shell_out>>
  /\ UNCHANGED <<hmsg, hres, htmp, hcell, depth, herr, ncells, unlink_failed, closes>>
  /\ UNCHANGED <<shellVars, hbVars>>
  /\ UNCHANGED events
  /\ UNCHANGED <<key, session_id, hcall, terminates>>

\* The Shell responder with its traffic, the installed bridge, and close
\* with every way out of it, called on the bridge or through the sidecar
\* handle.
NextClose ==
  \/ ShellResponder
  \/ install_bridge \/ host_send_return
  \/ close_begin \/ close_join_shell \/ close_join_hb \/ close_destroy
  \/ close_unlink \/ close_rmdir
  \/ close_raise
  \/ BridgedSidecar_close \/ BridgedSidecar_close_bridge
  \/ heartbeat_loop_top \/ heartbeat_poll_timeout

SpecClose == Init /\ [][NextClose]_vars

\* C21: whenever close has been left, by return or by an exception, the
\* context is destroyed and the connection file is gone unless its removal
\* failed (and the directory is gone unless a removal failed).
C21_CloseReleasesOnEveryExit ==
  close_state \in {"closed", "raised"} =>
    /\ ~ctx_alive
    /\ conn_file => unlink_failed

\* C24: BridgedSidecar.close terminates the process and then closes the
\* bridge: the bridge's close is entered only after terminate was called,
\* and when the close has returned the process was sent terminate exactly
\* once, both responders have stopped, the context is destroyed and the
\* connection file is removed (unless its removal failed).
C24_SidecarCloseTerminatesThenCloses ==
  /\ (terminates > 0 /\ hpc # "sidecar_bridge_close") => close_state # "open"
  /\ (terminates > 0 /\ closes = 1 /\ close_state = "closed") =>
       /\ terminates = 1
       /\ spc \in {"exited", "died"} /\ bpc = "exited"
       /\ ~ctx_alive
       /\ conn_file => unlink_failed

\* C22: once an installed bridge is closed the tee is gone from the host's
\* stdout and stderr: a write made after the close reaches the original
\* stream only, so it returns normally and publishes nothing.
C22_WriteAfterCloseIsPlain ==
  [][(close_state = "closed" /\ TeeStream_write) =>
       (herr' = "none" /\ hmsg' = NoMsg)]_vars

\* C25: what the observer publishes after busy is fixed by the result
\* object: an error when error_in_exec is set, whatever result is;
\* otherwise, when result is set, an execute_result with the current
\* ExecutionCount, carrying the text/plain repr when the formatter raised;
\* otherwise nothing, and idle is next.
C25_MiddleDeterminedByResult ==
  [][post_run_cell_mid =>
       IF hres.error # "none"
       THEN hmsg'.type = "error" /\ hmsg'.cell = hcell
       ELSE IF hres.result # "none"
       THEN /\ hmsg'.type = "execute_result" /\ hmsg'.cell = hcell
            /\ hmsg'.count = execution_count
            /\ hres.fmt = "raise" => hmsg'.data = ("text/plain" :> "repr")
       ELSE Kind(hmsg') = "idle" /\ hmsg'.cell = hcell]_vars

\* ---------------------------------------------- writes and the guard
\* The tee written to by the host thread and by the Shell responder thread
\* (from a user expression), the displayhook wrapper that raises and lowers
\* the guard, and close.
NextWrites ==
  \/ ShellResponder
  \/ shell_recv_write \/ handle_execute_eval_write \/ handle_execute_write_return
  \/ install_bridge \/ host_send_return
  \/ TeeStream_write
  \/ displayhook_wrapper_enter \/ displayhook_wrapper_exit
  \/ close_begin \/ close_join_shell \/ close_join_hb \/ close_destroy
  \/ close_unlink \/ close_rmdir
  \/ heartbeat_loop_top \/ heartbeat_poll_timeout

SpecWrites == Init /\ [][NextWrites]_vars

\* C30: the guard is per thread: a non-empty write to the tee made by the
\* Shell responder thread on an open, installed bridge is published as a
\* stream message, whether or not the host thread is inside the displayhook.
C30_GuardPerThread ==
  [][(handle_execute_eval_write /\ installed /\ ctx_alive) =>
       (smsg'.type = "stream" /\ smsg'.by = "shell")]_vars

\* A step of the Shell responder that belongs to the handling of an
\* execute_request: the dispatch into _handle_execute, a turn of its loop,
\* or its reply.
ExecuteStep ==
  \/ (shell_recv \/ shell_recv_write) /\ spc' \in {"ex_eval", "ex_reply"}
  \/ handle_execute_eval
  \/ handle_execute_eval_write
  \/ handle_execute_write_return
  \/ handle_execute_reply

shell_zmq_error_continues ==
  /\ spc \in {"poll", "ki_status", "ex_reply"}
  /\ spc' = "top"
  /\ UNCHANGED <<sids, sparent, sitems, sresults, shell_in, count_overlap, smsg>>
  /\ UNCHANGED <<sharedVars, hostVars, hbVars>>
  /\ UNCHANGED events
  /\ UNCHANGED <<key, session_id, hcall, terminates>>

\* A ZeroMQ call of the Shell responder raises zmq.ZMQError: poll or
\* recv_multipart, the IOPub send of _handle_kernel_info, or the reply of
\* _handle_execute.  `except zmq.ZMQError: break` ends the loop.
shell_zmq_error ==
  /\ spc \in {"poll", "ki_status", "ex_reply"}
  /\ spc' = "exited"
  /\ UNCHANGED <<sids, sparent, sitems, sresults, shell_in, count_overlap, smsg>>
  /\ UNCHANGED <<sharedVars, hostVars, hbVars>>
  /\ UNCHANGED events
  /\ UNCHANGED <<key, session_id, hcall, terminates>>

\* A ZeroMQ call of the Heartbeat responder raises zmq.ZMQError: poll or
\* recv, or the send of the echo.
heartbeat_zmq_error ==
  /\ bpc \in {"poll", "recvd"}
  /\ bpc' = "exited"
  /\ UNCHANGED <<bmsg, hb_in, hb_out>>
  /\ UNCHANGED <<sharedVars, hostVars, shellVars>>
  /\ UNCHANGED events
  /\ UNCHANGED <<key, session_id, hcall, terminates>>

ShellThread == ShellResponder \/ shell_zmq_error

HeartbeatThread == HeartbeatResponder \/ heartbeat_zmq_error

\* Both responders with their traffic and their transport errors, close, and
\* a Publisher call of the host thread.
NextResponders ==
  \/ ShellThread
  \/ HeartbeatThread
  \/ call_publish_display_data \/ host_send_return
  \/ close_begin \/ close_join_shell \/ close_join_hb \/ close_destroy
  \/ close_unlink \/ close_rmdir

SpecResponders == Init /\ [][NextResponders]_vars

\* Both responders with their traffic, and close.
NextShutdown ==
  \/ ShellResponder
  \/ HeartbeatResponder
  \/ close_begin \/ close_join_shell \/ close_join_hb \/ close_destroy
  \/ close_unlink \/ close_rmdir

\* Each responder is a thread of its own that the scheduler lets run: a
\* step it can take is taken; poll(1000) returns after a second at most,
\* and the evaluation of a user expression returns.
SpecShutdown ==
  /\ Init /\ [][NextShutdown]_vars
  /\ WF_vars(ShellResponder)
  /\ WF_vars(HeartbeatResponder)

\* C27: once close has set the running flag to false, each responder
\* leaves its loop; a responder that has left its loop receives and sends
\* nothing any more.
C27_RespondersExitAfterClose ==
  /\ (~running) ~> (spc \in {"exited", "died"} /\ bpc = "exited")
  /\ [][(shell_loop_top /\ ~running) => spc' = "exited"]_vars
  /\ [][(heartbeat_loop_top /\ ~running) => bpc' = "exited"]_vars
  /\ [][(spc = "exited" \/ spc = "died") =>
          (spc' = spc /\ shell_in' = shell_in /\ shell_out' = shell_out)]_vars
  /\ [][bpc = "exited" =>
          (bpc' = bpc /\ hb_in' = hb_in /\ hb_out' = hb_out)]_vars

\* C27 witness: close has been called while the Shell responder was handling
\* a request and the Heartbeat responder had a frame in hand; both have
\* finished that and left their loops.
C27_Witness ==
  /\ ~running /\ spc = "exited" /\ bpc = "exited"
  /\ Len(shell_out) = 1 /\ Len(hb_out) = 1
  /\ close_state = "closing" /\ hpc = "close_join_shell"

\* C28: a ZeroMQ error in a responder ends that responder's loop and leaves
\* the other responder and the running flag as they were; a responder that
\* has left its loop handles nothing more, while the other one can still
\* take the next message; a Publisher call of the host thread on a destroyed
\* context raises the ZeroMQ error to its caller and sends nothing.
C28_ZmqErrorEndsOneResponder ==
  /\ [][shell_zmq_error =>
          (spc' = "exited" /\ UNCHANGED hbVars /\ running' = running)]_vars
  /\ [][heartbeat_zmq_error =>
          (bpc' = "exited" /\ UNCHANGED shellVars /\ running' = running)]_vars
  /\ [][(spc = "exited") =>
          (spc' = "exited" /\ shell_in' = shell_in /\ shell_out' = shell_out
           /\ smsg' = smsg)]_vars
  /\ [][(bpc = "exited") =>
          (bpc' = "exited" /\ hb_in' = hb_in /\ hb_out' = hb_out)]_vars
  /\ []((spc = "exited" /\ running /\ bpc = "poll" /\ Len(hb_in) < MaxHb)
          => ENABLED heartbeat_recv)
  /\ []((spc = "exited" /\ running /\ bpc = "recvd") => ENABLED heartbeat_send)
  /\ []((bpc = "exited" /\ running /\ spc = "poll" /\ events < MaxEvents)
          => ENABLED shell_recv)
  /\ [][(call_publish_display_data /\ ~ctx_alive) =>
          (herr' = "ZMQError" /\ hpc' = "idle" /\ hmsg' = NoMsg
           /\ iopub' = iopub)]_vars

\* C28 witness: the Shell responder has answered one request and then left
\* its loop on a ZeroMQ error, with the bridge still running and its context
\* open; the Heartbeat responder has echoed one frame and holds the next.
C28_Witness ==
  /\ spc = "exited" /\ running /\ ctx_alive
  /\ Len(shell_out) = 1
  /\ bpc = "recvd" /\ Len(hb_out) = 1

\* ------------------------------------------------ unsigned frames on Shell
\* What a client may put in the signature frame: the HMAC of the message
\* under the key of the connection file, some other digest, or nothing.
Signatures == {"hmac", "bad", ""}

\* The multipart message with its signature frame (the frame after the
\* delimiter) replaced; a message without that frame is left as it is.
with_signature(parts, sig) ==
  LET di == delim_index(parts)
  IN  IF di = 0 \/ Len(parts) < di + 1 THEN parts
      ELSE [parts EXCEPT ![di + 1] = sig]

\* C31: whatever request the Shell responder receives, the same request
\* with any other signature frame (valid, invalid or empty) is dispatched
\* in the same way from the same state: same reply sent on Shell, same
\* request taken up for handling, nothing else of the bridge changed.
C31_SignatureIgnored ==
  [][\A parts \in Requests :
       (spc = "poll" /\ shell_in' = Append(shell_in, parts)) =>
         \A sig \in Signatures :
           /\ shell_dispatch(with_signature(parts, sig))
           /\ UNCHANGED <<running, ctx_alive, conn_file, conn_dir,
                          execution_count, in_displayhook, installed, iopub>>]_vars

\* C31 witness: a kernel_info_request with an empty signature frame and an
\* execute_request with a wrong one have both been answered.
C31_Witness ==
  /\ shell_in = << Multipart(<<"a", "b">>, "", HDR_KI_2, EMPTY_OBJECT),
                   Multipart(<<"b", "a">>, "bad", HDR_EX_1, CONTENT_UE_OK) >>
  /\ Len(shell_out) = 2
  /\ shell_out[1].type = "kernel_info_reply"
  /\ shell_out[2].type = "execute_reply"
  /\ spc = "top"

\* ------------------------------------------------- launch of the bridged sidecar
\* _launch_bridged_sidecar: `bridge = install_bridge(ip)`.  The bridge of
\* Init is the one install_bridge has just constructed; the hooks are wired
\* and the initial status idle is published, and the launch goes on.
launch_install_bridge ==
  /\ host_ready /\ ~installed /\ close_state = "open"
  /\ installed' = TRUE
  /\ host_send_iopub(publish_status("host", "idle", EmptyDict, 0), "launch_find")
  /\ UNCHANGED <<running, ctx_alive, conn_file, conn_dir, execution_count,
                 in_displayhook, iopub, shell_out>>
  /\ UNCHANGED <<hres, htmp, hcell, depth, ncells, close_state, unlink_failed, closes>>
  /\ UNCHANGED shellRest
  /\ UNCHANGED hbVars
  /\ UNCHANGED events
  /\ UNCHANGED <<key, session_id, hcall, terminates>>

\* `runt_bin = find_binary("runt")`: BinaryNotFoundError leaves
\* _launch_bridged_sidecar and sidecar() at once; nothing catches it.
launch_find_binary ==
  /\ hpc = "launch_find" /\ hmsg = NoMsg
  /\ \E host \in BinaryHosts :
       IF find_binary(host).raised = "none"
       THEN hpc' = "launch_popen" /\ herr' = "none"
       ELSE hpc' = "idle" /\ herr' = find_binary(host).raised
  /\ UNCHANGED <<hmsg, hres, htmp, hcell, depth, ncells, close_state,
                 unlink_failed, closes>>
  /\ UNCHANGED <<sharedVars, shellVars, hbVars>>
  /\ UNCHANGED events
  /\ UNCHANGED <<key, session_id, hcall, terminates>>

\* `proc = subprocess.Popen(cmd, ...)`: the process starts and the
\* BridgedSidecar is returned, or Popen raises OSError (the file is not
\* executable, or is gone since it was found) and nothing catches it.
launch_popen ==
  /\ hpc = "launch_popen"
  /\ hpc' = "idle"
  /\ herr' \in {"none", "OSError"}
  /\ UNCHANGED <<hmsg, hres, htmp, hcell, depth, ncells, close_state,
                 unlink_failed, closes>>
  /\ UNCHANGED <<sharedVars, shellVars, hbVars>>
  /\ UNCHANGED events
  /\ UNCHANGED <<key, session_id, hcall, terminates>>

\* sidecar() in plain IPython, with the responders at work meanwhile.
NextLaunch ==
  \/ launch_install_bridge \/ host_send_return
  \/ launch_find_binary \/ launch_popen
  \/ ShellResponder
  \/ heartbeat_loop_top \/ heartbeat_poll_timeout

SpecLaunch == Init /\ [][NextLaunch]_vars

\* C32: when sidecar() has raised because the binary was not found or the
\* process could not be started, no responder thread runs, the connection
\* file is not on disk, and the host's streams and display publisher are
\* not wrapped.
C32_FailedLaunchLeavesNoBridge ==
  (hpc = "idle" /\ herr \in {"BinaryNotFoundError", "OSError"}) =>
    /\ ~running /\ spc \in {"exited", "died"} /\ bpc = "exited"
    /\ ~conn_file
    /\ ~installed

====
